---- MODULE Spec2Model ----
(***************************************************************************)
(* Send-side bandwidth-estimation and pacing core of aalekseevx/vibe.      *)
(*                                                                         *)
(*   SpecPacer    : pacing.Interceptor with one stream: the token bucket  *)
(*                  under writes, target updates, ticks and shutdown       *)
(*   SpecPad      : pacing.Interceptor with NumSSRC retransmission         *)
(*                  streams: the round-robin and the padding               *)
(*   SpecPadBurst : SpecPad with a bucket that pays for a burst of padding *)
(*   SpecGcc      : congestion-control interceptor target + AIMD state     *)
(*   SpecAlloc    : simulcast sources and simulcastBitrateAllocator        *)
(*   SpecTick     : the pacer between two ticks, any enrolment and balance *)
(*   SpecMutex    : pacing.Interceptor one statement at a time, with p.mu  *)
(*   SpecFeedback : the RTCP read goroutines of the cc interceptor         *)
(*   SpecSender   : Sender.Start over a StatisticalEncoderSource;          *)
(*                  SpecSenderFair adds fair scheduling of the goroutines  *)
(*   SpecPadWrite : the pacer's worker alone, with writers that may fail   *)
(*   SpecConfig   : the constructors of the interceptors and their errors  *)
(*   SpecCodec    : syncodec StatisticalCodec and TraceCodec               *)
(*   SpecArrival  : DelayRateController.OnPacketAcked and its accumulator  *)
(*   SpecDrc      : DelayRateController.OnPacketAcked together with Update *)
(*   SpecBudget   : intervalBudget.UseBudget, call by call                 *)
(*   SpecRoundRobin : roundRobin under Add, Remove and Next, call by call  *)
(*   SpecGetPadding : getPadding one statement at a time;                  *)
(*                  SpecGetPaddingFair lets the worker keep running        *)
(*   SpecSnapshot : GetQualities one loop pass at a time, with SetQuality  *)
(*   SpecProducer : a media source and the codec goroutine it starts;      *)
(*                  SpecProducerFair adds fair scheduling of the goroutines*)
(*                                                                         *)
(* Times are counted in clock units of 1/UnitsPerMs millisecond, so that   *)
(* time.Duration.Milliseconds() is a real truncation.                      *)
(***************************************************************************)
EXTENDS Integers, Sequences, FiniteSets, TLC

\* ---------------------------------------------------------------- bounds
MaxClock == 2         \* SpecPacer: the clock runs from 0 to MaxClock clock units
PadTimeMs == 2        \* SpecPad: the clock runs from 0 to PadTimeMs milliseconds
UnitsPerMs == 2       \* clock units per millisecond
MaxRateSteps == 2     \* target rates are 0..MaxRateSteps bytes per ms
MaxWindowMs == 1      \* largest bucket window (ms) drawn at construction
MaxPktBytes == 1      \* largest RTP packet (bytes)
MaxPadCount == 2      \* cap of the per-SSRC padding counters
MaxCopyFail == 1      \* most failing packetFactory.NewPacket calls per tick
NumSSRC == 2          \* SSRCs are 1..NumSSRC
MaxClosedTicks == 2   \* cap of the count of ticks after Close

\* ------------------------------------------------------ program constants
TokensPerByte == 8000

SSRCs == 1..NumSSRC
Rates == {k * TokensPerByte : k \in 0..MaxRateSteps}
WriteErrs == {"nil", "ErrClosedPipe", "other"}

VARIABLES
  \* pacing.Interceptor
  clock,        \* time.Now(), clock units
  tickChan,     \* ticker.C (capacity 1): the fire times waiting to be received
  done,         \* p.done closed
  running,      \* the run goroutine has not returned
  budget,       \* intervalBudget: [Window, lastIncreased, rate, max, tok]
  rrItems,      \* roundRobin.items
  rrIndex,      \* roundRobin.index (0-based)
  writers,      \* keys of p.writers
  rtxOf,        \* keys of p.rtxSSRC / p.rtxPayloadType
  lastPacket,   \* p.lastPacket: SSRC -> MarshalSize, 0 when absent
  closures,     \* SSRCs whose writer returned by BindLocalStream the caller still holds
  \* observations of the pacer
  padCount,     \* SSRC -> padding packets written so far
  padPair,      \* every padding packet so far was chosen with exactly two SSRCs enrolled,
                \* both with a cached packet of the same size
  wrOk,         \* every bound writer so far passed its packet on once and returned the result
  wrFloor,      \* a bound writer was called and left the balance at -max
  rrWait,       \* SSRC s -> SSRCs enrolled since Next last returned s and not returned since
  rrTwice,      \* Next returned an SSRC again while rrWait of it was not empty
  closedTicks   \* calls of step that began after close(p.done), counted up to MaxClosedTicks

VARIABLES
  \* congestion-control interceptor and the controller behind it
  ccInitial,    \* initialBitrate given to the GCC option
  ccMin,        \* minBitrate the send-side controller was built with
  ccMax,        \* maxBitrate the send-side controller was built with
  target,       \* Interceptor.target (atomic.Int32)
  rcState,      \* rateController.s
  latestUsage,  \* DelayRateController.latestUsage
  samples,      \* DelayRateController.samples
  rcLast        \* <<state, usage>> the last transition started from, <<>> before the first

VARIABLES
  \* simulcast sources and the allocator
  srcQualities,    \* per source: TraceCodecSource.qualities, in configuration order
  currentQuality,  \* per source: TraceCodec.currentQuality
  alloc,           \* what the last simulcastBitrateAllocator.SetTargetBitrate did
  sqErr            \* a SetQuality call has returned an error

VARIABLES
  \* pacing.Interceptor, one statement at a time
  padClosed,    \* SSRCs whose writer returned io.ErrClosedPipe for a padding packet
  mu,           \* p.mu: the goroutine that holds it, "" when unlocked
  pc,           \* goroutine -> the statement it is at
  stepFrame     \* locals of step: [now, availiableBytes, paddingPackets]

VARIABLES
  \* the readers and writers bound by the congestion-control interceptor
  rd,           \* RTCP read goroutine -> [pc, pkts, out, err]
  acksDone,     \* estimator.OnAcks calls that have returned
  targetSeq,    \* which OnAcks call (1, 2, ..) returned the stored target, 0: none
  ccOut         \* <<>> or what the last call of a bound writer did

VARIABLES
  \* Sender.Start with an encoderBitrateAllocator over a StatisticalEncoderSource
  sw,           \* the allocator goroutine of Start: [pc, targetBitrate]
  lastBitrate,  \* lastBitrate of Start
  lastRead,     \* <<>> or the target the allocator goroutine read at its last tick
  allocSet,     \* <<>> or the rate of the last bitrateAllocator.SetTargetBitrate that returned
  enc,          \* StatisticalEncoderSource.Start: "notStarted", "select", "returned"
  ctxDone,      \* the context of the errgroup is cancelled
  sTick,        \* a tick waits in the 100 ms ticker of Start
  closer        \* StatisticalEncoderSource.Close: [pc, running], pc "idle", "Wait" or
                \* "returned", running: Start was in its loop when Close was called

VARIABLES
  \* constructors and codecs
  built,        \* <<>> or the arguments and the result of the last constructor call
  scTarget,     \* <<>> or StatisticalCodec.targetBitrateBps of the codec built
  tc            \* <<>> or the TraceCodec built: [traces, currentQuality]

VARIABLES
  \* DelayRateController and its arrivalGroupAccumulator
  agaNext,      \* arrivalGroupAccumulator.next
  acked,        \* acknowledgments given to DelayRateController.OnPacketAcked
  drcLast,      \* DelayRateController.last
  kfLast,       \* <<>> or the arguments of the last kalmanFilter.update
  kfCalls,      \* calls of kalmanFilter.update
  agaOut        \* <<>> or the last ack given to onPacketAcked and what it returned

VARIABLES
  \* single calls and loops followed one statement at a time
  ubOut,        \* <<>> or the last UseBudget call: [before, bytes, now, after]
  gp,           \* getPadding in progress: [pc, maxBytes, bytes, left, index, fits, result]
  snap,         \* GetQualities in progress: [pc, i, active]
  prod          \* a media source and its codec goroutine: [src, codec, frames]

gvars == <<ccInitial, ccMin, ccMax, target, rcState, latestUsage, samples, rcLast>>
avars == <<srcQualities, currentQuality, alloc, sqErr>>

pvars == <<clock, tickChan, done, running, budget, rrItems, rrIndex, writers,
           rtxOf, lastPacket, closures, padCount, padPair, wrOk, wrFloor, rrWait, rrTwice, closedTicks>>

mvars == <<mu, pc, stepFrame, padClosed>>
fvars == <<rd, acksDone, targetSeq, ccOut>>
svars == <<sw, lastBitrate, lastRead, allocSet, enc, ctxDone, sTick, closer>>
cvars == <<built, scTarget, tc>>
dvars == <<agaNext, acked, drcLast, kfLast, kfCalls, agaOut>>
xvars == <<ubOut, gp, snap, prod>>

\* constructors, codecs and the delay-based controller
rest == <<cvars, dvars, xvars>>

vars == <<pvars, gvars, avars, mvars, fvars, svars, rest>>

\* what the actions of one component leave alone
offPacer == <<gvars, avars, mvars, fvars, svars, rest>>
offGcc == <<pvars, avars, mvars, fvars, svars, rest>>
offAlloc == <<pvars, gvars, mvars, fvars, svars, rest>>

\* ------------------------------------------------------------- helpers
Min(a, b) == IF a <= b THEN a ELSE b
Max(a, b) == IF a >= b THEN a ELSE b

\* Go integer division truncates toward zero
TruncDiv(a, b) == IF a >= 0 THEN a \div b ELSE -((-a) \div b)

\* time.Duration.Milliseconds()
Milliseconds(d) == TruncDiv(d, UnitsPerMs)

SeqToSet(s) == {s[i] : i \in 1..Len(s)}

\* ------------------------------------------------------- intervalBudget
clip(value, minValue, maxValue) == Min(Max(value, minValue), maxValue)

increaseBudget(b, now) ==
  LET deltaTime == now - b.lastIncreased
      newTokens == b.rate * Milliseconds(deltaTime)
  IN [b EXCEPT !.lastIncreased = now,
               !.tok = Min(b.tok + newTokens, b.max)]

SetTargetRate(b, targetRateBitsPerSec, now) ==
  LET b1 == increaseBudget(b, now)
      mx == b.Window * targetRateBitsPerSec
  IN [b1 EXCEPT !.rate = targetRateBitsPerSec,
                !.max = mx,
                !.tok = clip(b1.tok, -mx, mx)]

\* UseBudget that debits without the refill
UseBudgetNoRefill(b, bytes, now) ==
  [b EXCEPT !.tok = Max(b.tok - bytes * TokensPerByte, -b.max)]

UseBudget(b, bytes, now) ==
  LET b1 == increaseBudget(b, now)
      tokens == bytes * TokensPerByte
  IN [b1 EXCEPT !.tok = Max(b1.tok - tokens, -b1.max)]

\* the budget after the refill of BytesRemaining
BytesRemainingBudget(b, now) == increaseBudget(b, now)

\* the value BytesRemaining returns, from the refilled budget
BytesRemaining(b1) == TruncDiv(Max(b1.tok, 0), TokensPerByte)

newIntervalBudget(initialTargetRateBps, window, now) ==
  SetTargetRate([Window |-> window, lastIncreased |-> now,
                 rate |-> 0, max |-> 0, tok |-> 0],
                initialTargetRateBps, now)

\* ----------------------------------------------------------- roundRobin
\* a round-robin is [items, index]
roundRobinAdd(rr, item) ==
  IF item \in SeqToSet(rr.items) THEN rr
  ELSE [rr EXCEPT !.items = Append(rr.items, item)]

\* Remove that leaves the cursor where it is
roundRobinRemoveKeepIndex(rr, item) ==
  IF item \notin SeqToSet(rr.items) THEN rr
  ELSE LET i == CHOOSE k \in 1..Len(rr.items) : rr.items[k] = item
       IN [rr EXCEPT !.items = SubSeq(rr.items, 1, i - 1) \o SubSeq(rr.items, i + 1, Len(rr.items))]

roundRobinRemove(rr, item) ==
  IF item \notin SeqToSet(rr.items) THEN rr
  ELSE LET i == CHOOSE k \in 1..Len(rr.items) : rr.items[k] = item
           its == SubSeq(rr.items, 1, i - 1) \o SubSeq(rr.items, i + 1, Len(rr.items))
       IN [items |-> its,
           index |-> IF rr.index = Len(its) THEN 0 ELSE rr.index]

\* Next on a non-empty round-robin: the item returned and the new cursor
roundRobinNextItem(rr) == rr.items[rr.index + 1]

\* Next that leaves the cursor where it is
roundRobinNextStuck(rr) == rr

roundRobinNext(rr) == [rr EXCEPT !.index = (rr.index + 1) % Len(rr.items)]

\* ------------------------------------------------- pacing.Interceptor
\* One pass of the inner loop of getPadding: k calls of roundRobin.Next left.
\* st = [bytes, result, served, index, fits, fail]; served lists what Next
\* returned, fail counts the packetFactory.NewPacket calls that still fail.
RECURSIVE getPaddingRound(_, _, _, _, _)
getPaddingRound(k, st, items, lp, maxBytes) ==
  IF k = 0 THEN st
  ELSE
    LET rr   == [items |-> items, index |-> st.index]
        ssrc == roundRobinNextItem(rr)
        st1  == [st EXCEPT !.index = roundRobinNext(rr).index,
                           !.served = Append(st.served, ssrc)]
        size == lp[ssrc]
    IN IF size = 0 THEN getPaddingRound(k - 1, st1, items, lp, maxBytes)
       ELSE IF size >= maxBytes - st.bytes
         THEN getPaddingRound(k - 1, st1, items, lp, maxBytes)
       ELSE IF st.fail > 0
         THEN getPaddingRound(k - 1, [st1 EXCEPT !.fits = TRUE, !.fail = st.fail - 1],
                              items, lp, maxBytes)
       ELSE getPaddingRound(k - 1,
              [st1 EXCEPT !.fits = TRUE,
                          !.bytes = st.bytes + size,
                          !.result = Append(st.result, [ssrc |-> ssrc, size |-> size])],
              items, lp, maxBytes)

RECURSIVE getPaddingLoop(_, _, _, _)
getPaddingLoop(st, items, lp, maxBytes) ==
  IF st.bytes < maxBytes
    THEN LET st2 == getPaddingRound(Len(items), [st EXCEPT !.fits = FALSE], items, lp, maxBytes)
         IN IF ~st2.fits THEN st2 ELSE getPaddingLoop(st2, items, lp, maxBytes)
    ELSE st

\* getPadding that takes the first enrolled SSRC's cached packet unseen
getPaddingUnchecked(maxBytes, rr, lp, failN) ==
  LET st0 == [bytes |-> 0, result |-> <<>>, served |-> <<>>,
              index |-> rr.index, fits |-> FALSE, fail |-> failN]
  IN IF Len(rr.items) = 0 \/ lp[rr.items[1]] = 0 THEN st0
     ELSE [st0 EXCEPT !.bytes = lp[rr.items[1]],
                      !.result = <<[ssrc |-> rr.items[1], size |-> lp[rr.items[1]]]>>]

getPadding(maxBytes, rr, lp, failN) ==
  LET st0 == [bytes |-> 0, result |-> <<>>, served |-> <<>>,
              index |-> rr.index, fits |-> FALSE, fail |-> failN]
  IN IF Len(rr.items) = 0 THEN st0
     ELSE getPaddingLoop(st0, rr.items, lp, maxBytes)

\* the debits of the write loop of step, all stamped with the tick's time
RECURSIVE stepDebits(_, _, _, _)
stepDebits(b, pads, extra, now) ==
  IF pads = <<>> THEN b
  ELSE stepDebits(UseBudget(b, Head(pads).size + extra, now), Tail(pads), extra, now)

RECURSIVE stepCounts(_, _)
stepCounts(cnt, pads) ==
  IF pads = <<>> THEN cnt
  ELSE stepCounts([cnt EXCEPT ![Head(pads).ssrc] = @ + 1], Tail(pads))

\* bookkeeping of the returns of Next: w = [wait, twice]
RECURSIVE noteServed(_, _, _)
noteServed(w, served, enrolled) ==
  IF served = <<>> THEN w
  ELSE LET s == Head(served)
       IN noteServed([wait  |-> [x \in SSRCs |-> IF x = s THEN enrolled \ {s}
                                                  ELSE w.wait[x] \ {s}],
                      twice |-> w.twice \/ w.wait[s] # {}],
                     Tail(served), enrolled)

\* a bound writer that drops the packet when the bucket is empty
BoundWriterResultGated(b, res) ==
  IF b.max > 0 /\ b.tok <= -b.max
    THEN [passed |-> 0, n |-> 0, err |-> "other"]
    ELSE [passed |-> 1, n |-> res.n, err |-> res.err]

\* what the writer returned by BindLocalStream does with the next writer
BoundWriterResult(b, res) == [passed |-> 1, n |-> res.n, err |-> res.err]

UnderResults(size) == {[n |-> size, err |-> "nil"],
                       [n |-> 0, err |-> "ErrClosedPipe"],
                       [n |-> 0, err |-> "other"]}

\* NewInterceptor: everything but the budget
InitStreams ==
  /\ clock = 0
  /\ tickChan = <<>>
  /\ done = FALSE
  /\ running = TRUE
  /\ rrItems = <<>>
  /\ rrIndex = 0
  /\ writers = {}
  /\ rtxOf = {}
  /\ lastPacket = [s \in SSRCs |-> 0]
  /\ closures = {}
  /\ padCount = [s \in SSRCs |-> 0]
  /\ padPair = TRUE
  /\ wrOk = TRUE
  /\ wrFloor = FALSE
  /\ rrWait = [s \in SSRCs |-> {}]
  /\ rrTwice = FALSE
  /\ closedTicks = 0

InitPacerVars ==
  /\ InitStreams
  /\ \E r \in Rates, w \in 1..MaxWindowMs : budget = newIntervalBudget(r, w, 0)

\* time passes, one clock unit
Advance ==
  /\ clock < MaxClock
  /\ clock' = clock + 1
  /\ UNCHANGED <<tickChan, done, running, budget, rrItems, rrIndex, writers, rtxOf,
                 lastPacket, closures, padCount, padPair, wrOk, wrFloor, rrWait, rrTwice, closedTicks>>
  /\ UNCHANGED offPacer

\* time passes, one millisecond
AdvanceMs ==
  /\ clock + UnitsPerMs <= PadTimeMs * UnitsPerMs
  /\ clock' = clock + UnitsPerMs
  /\ UNCHANGED <<tickChan, done, running, budget, rrItems, rrIndex, writers, rtxOf,
                 lastPacket, closures, padCount, padPair, wrOk, wrFloor, rrWait, rrTwice, closedTicks>>
  /\ UNCHANGED offPacer

\* the ticker puts its fire time into ticker.C (capacity 1, dropped when full)
TickerFire ==
  /\ running
  /\ tickChan = <<>>
  /\ tickChan' = <<clock>>
  /\ UNCHANGED <<clock, done, running, budget, rrItems, rrIndex, writers, rtxOf,
                 lastPacket, closures, padCount, padPair, wrOk, wrFloor, rrWait, rrTwice, closedTicks>>
  /\ UNCHANGED offPacer

PacerSetTargetBitrate(bps) ==
  /\ budget' = SetTargetRate(budget, bps, clock)
  /\ UNCHANGED <<clock, tickChan, done, running, rrItems, rrIndex, writers, rtxOf,
                 lastPacket, closures, padCount, padPair, wrOk, wrFloor, rrWait, rrTwice, closedTicks>>
  /\ UNCHANGED offPacer

\* BindLocalStream that enrols every stream for padding, with or without RTX
BindLocalStreamAlways(ssrc, rtx) ==
  LET rr == roundRobinAdd([items |-> rrItems, index |-> rrIndex], ssrc)
  IN /\ writers' = writers \cup {ssrc}
     /\ rrItems' = rr.items
     /\ rrIndex' = rr.index
     /\ rtxOf' = IF rtx THEN rtxOf \cup {ssrc} ELSE rtxOf
     /\ closures' = closures \cup {ssrc}
     /\ UNCHANGED <<clock, tickChan, done, running, budget, lastPacket, padCount, padPair,
                    wrOk, wrFloor, rrWait, rrTwice, closedTicks>>
     /\ UNCHANGED offPacer

BindLocalStream(ssrc, rtx) ==
  LET rr == IF rtx THEN roundRobinAdd([items |-> rrItems, index |-> rrIndex], ssrc)
            ELSE [items |-> rrItems, index |-> rrIndex]
  IN /\ writers' = writers \cup {ssrc}
     /\ rrItems' = rr.items
     /\ rrIndex' = rr.index
     /\ rtxOf' = IF rtx THEN rtxOf \cup {ssrc} ELSE rtxOf
     /\ closures' = closures \cup {ssrc}
     /\ UNCHANGED <<clock, tickChan, done, running, budget, lastPacket, padCount, padPair,
                    wrOk, wrFloor, rrWait, rrTwice, closedTicks>>
     /\ UNCHANGED offPacer

\* keep: the caller goes on holding the writer it got from BindLocalStream
UnbindLocalStream(ssrc, keep) ==
  LET rr == roundRobinRemove([items |-> rrItems, index |-> rrIndex], ssrc)
  IN /\ writers' = writers \ {ssrc}
     /\ rrItems' = rr.items
     /\ rrIndex' = rr.index
     /\ rtxOf' = rtxOf \ {ssrc}
     /\ lastPacket' = [lastPacket EXCEPT ![ssrc] = 0]
     /\ rrWait' = [s \in SSRCs |-> rrWait[s] \ {ssrc}]
     /\ closures' = IF keep THEN closures ELSE closures \ {ssrc}
     /\ UNCHANGED <<clock, tickChan, done, running, budget, padCount, padPair,
                    wrOk, wrFloor, rrTwice, closedTicks>>
     /\ UNCHANGED offPacer

\* a call of the writer returned by BindLocalStream for ssrc; same says whether
\* header.SSRC is the stream's SSRC, res is what the next writer returns
Write(ssrc, size, same, res) ==
  LET b1 == UseBudget(budget, size, clock)
      out == BoundWriterResult(b1, res)
  IN /\ ssrc \in closures
     /\ budget' = b1
     /\ lastPacket' = IF same THEN [lastPacket EXCEPT ![ssrc] = size] ELSE lastPacket
     /\ wrOk' = (wrOk /\ out.passed = 1 /\ out.n = res.n /\ out.err = res.err)
     /\ wrFloor' = (wrFloor \/ (b1.max > 0 /\ b1.tok = -b1.max))
     /\ UNCHANGED <<clock, tickChan, done, running, rrItems, rrIndex, writers, rtxOf,
                    closures, padCount, padPair, rrWait, rrTwice, closedTicks>>
     /\ UNCHANGED offPacer

\* exactly two SSRCs are enrolled and their cached packets have one size
TwoEqualEnrolled ==
  /\ Len(rrItems) = 2
  /\ lastPacket[rrItems[1]] > 0
  /\ lastPacket[rrItems[1]] = lastPacket[rrItems[2]]

\* run receives a tick and calls step(now); extra is the growth of a packet
\* rewritten as a retransmission, failN the failing NewPacket calls
Step(extra, failN) ==
  LET now == Head(tickChan)
      b1  == BytesRemainingBudget(budget, now)
      maxBytes == BytesRemaining(b1)
      g   == getPadding(maxBytes, [items |-> rrItems, index |-> rrIndex], lastPacket, failN)
      w   == noteServed([wait |-> rrWait, twice |-> rrTwice], g.served, SeqToSet(rrItems))
      cnt == stepCounts(padCount, g.result)
  IN /\ running
     /\ tickChan # <<>>
     /\ \A s \in SSRCs : cnt[s] <= MaxPadCount
     /\ failN = 0 \/ g.fail < failN
     /\ tickChan' = <<>>
     /\ budget' = stepDebits(b1, g.result, extra, now)
     /\ rrIndex' = g.index
     /\ padCount' = cnt
     /\ padPair' = (padPair /\ (g.result = <<>> \/ TwoEqualEnrolled))
     /\ rrWait' = w.wait
     /\ rrTwice' = w.twice
     /\ closedTicks' = IF done THEN Min(closedTicks + 1, MaxClosedTicks) ELSE closedTicks
     /\ UNCHANGED <<clock, done, running, rrItems, writers, rtxOf, lastPacket,
                    closures, wrOk, wrFloor>>
     /\ UNCHANGED offPacer

Close ==
  /\ ~done
  /\ done' = TRUE
  /\ UNCHANGED <<clock, tickChan, running, budget, rrItems, rrIndex, writers, rtxOf,
                 lastPacket, closures, padCount, padPair, wrOk, wrFloor, rrWait, rrTwice, closedTicks>>
  /\ UNCHANGED offPacer

\* run takes the done case of its select and returns
RunExit ==
  /\ running
  /\ done
  /\ running' = FALSE
  /\ UNCHANGED <<clock, tickChan, done, budget, rrItems, rrIndex, writers, rtxOf,
                 lastPacket, closures, padCount, padPair, wrOk, wrFloor, rrWait, rrTwice, closedTicks>>
  /\ UNCHANGED offPacer

RtxExtra == {0, 2}

\* the pacer with one stream: the token bucket under every interleaving of
\* writes, target updates, ticks and shutdown
PacerSSRCs == {1}

NextPacer ==
  \/ Advance
  \/ TickerFire
  \/ \E bps \in Rates : PacerSetTargetBitrate(bps)
  \/ \E ssrc \in PacerSSRCs, rtx \in BOOLEAN : BindLocalStream(ssrc, rtx)
  \/ \E ssrc \in PacerSSRCs, keep \in BOOLEAN : UnbindLocalStream(ssrc, keep)
  \/ \E ssrc \in PacerSSRCs, size \in 1..MaxPktBytes, same \in BOOLEAN :
       \E res \in UnderResults(size) : Write(ssrc, size, same, res)
  \/ \E extra \in RtxExtra, failN \in 0..MaxCopyFail : Step(extra, failN)
  \/ Close
  \/ RunExit

\* the pacer with NumSSRC retransmission streams and a bucket of one
\* millisecond: the round-robin and the padding it selects. At PadRate a full
\* bucket pays for one padding packet, at BurstRate for three.
PadRate == 2 * TokensPerByte
BurstRate == 4 * TokensPerByte

InitPad ==
  /\ InitStreams
  /\ budget = newIntervalBudget(PadRate, 1, 0)

InitBurst ==
  /\ InitStreams
  /\ budget = newIntervalBudget(BurstRate, 1, 0)

NextPad ==
  \/ AdvanceMs
  \/ TickerFire
  \/ \E ssrc \in SSRCs : BindLocalStream(ssrc, TRUE)
  \/ \E ssrc \in SSRCs : UnbindLocalStream(ssrc, FALSE)
  \/ \E ssrc \in SSRCs : Write(ssrc, 1, TRUE, [n |-> 1, err |-> "nil"])
  \/ \E failN \in 0..MaxCopyFail : Step(0, failN)

\* ------------------------- pacing.Interceptor, one statement at a time
\* the goroutines that use one Interceptor: the worker started by
\* NewInterceptor, a caller of SetTargetBitrate, a caller of a bound writer,
\* the caller of BindLocalStream and UnbindLocalStream
Goroutines == {"run", "SetTargetBitrate", "Write", "streams"}

NoFrame == [now |-> 0, availiableBytes |-> 0, paddingPackets |-> <<>>]

InitMutexVars ==
  /\ mu = ""
  /\ pc = [g \in Goroutines |-> IF g = "run" THEN "select" ELSE "Lock"]
  /\ stepFrame = NoFrame
  /\ padClosed = {}

\* what no statement of step, SetTargetBitrate or a bound writer assigns
pacerKept == <<done, running, padCount, padPair, wrOk, wrFloor, rrWait, rrTwice, closedTicks>>
streamsKept == <<rrItems, writers, rtxOf, closures>>
offPacerMu == <<gvars, avars, fvars, svars, rest>>

\* p.mu.Lock() blocks until the mutex is free
Lock(g) == mu = "" /\ mu' = g
Unlock(g) == mu = g /\ mu' = ""

\* run: case now := <-ticker.C
runReceive ==
  /\ pc["run"] = "select"
  /\ running
  /\ tickChan # <<>>
  /\ tickChan' = <<>>
  /\ stepFrame' = [NoFrame EXCEPT !.now = Head(tickChan)]
  /\ pc' = [pc EXCEPT !["run"] = "Lock"]
  /\ UNCHANGED <<mu, clock, budget, rrIndex, lastPacket, streamsKept, pacerKept, padClosed, offPacerMu>>

stepLock ==
  /\ pc["run"] = "Lock"
  /\ Lock("run")
  /\ pc' = [pc EXCEPT !["run"] = "BytesRemaining"]
  /\ UNCHANGED <<stepFrame, clock, tickChan, budget, rrIndex, lastPacket, streamsKept, pacerKept, padClosed, offPacerMu>>

stepBytesRemaining ==
  /\ pc["run"] = "BytesRemaining"
  /\ budget' = BytesRemainingBudget(budget, stepFrame.now)
  /\ stepFrame' = [stepFrame EXCEPT !.availiableBytes = BytesRemaining(budget')]
  /\ pc' = [pc EXCEPT !["run"] = "getPadding"]
  /\ UNCHANGED <<mu, clock, tickChan, rrIndex, lastPacket, streamsKept, pacerKept, padClosed, offPacerMu>>

stepGetPadding(failN) ==
  LET g == getPadding(stepFrame.availiableBytes, [items |-> rrItems, index |-> rrIndex],
                      lastPacket, failN)
  IN /\ pc["run"] = "getPadding"
     /\ failN = 0 \/ g.fail < failN
     /\ rrIndex' = g.index
     /\ stepFrame' = [stepFrame EXCEPT !.paddingPackets = g.result]
     /\ pc' = [pc EXCEPT !["run"] = "Write"]
     /\ UNCHANGED <<mu, clock, tickChan, budget, lastPacket, streamsKept, pacerKept, padClosed, offPacerMu>>

\* one pass of the write loop of step; res is the error of writer.Write. A
\* writer that returned io.ErrClosedPipe is closed for good (padClosed). The
\* branch on err only logs, so no result changes what the loop does next.
stepWrite(extra, res) ==
  LET padPkt == Head(stepFrame.paddingPackets)
      exists == padPkt.ssrc \in writers
  IN /\ pc["run"] = "Write"
     /\ stepFrame.paddingPackets # <<>>
     /\ (exists /\ padPkt.ssrc \in padClosed) => res = "ErrClosedPipe"
     /\ ~exists => res = "nil"
     /\ budget' = IF exists
                    THEN UseBudget(budget, padPkt.size + extra, stepFrame.now)
                    ELSE budget
     /\ padClosed' = IF exists /\ res = "ErrClosedPipe"
                       THEN padClosed \cup {padPkt.ssrc}
                       ELSE padClosed
     /\ stepFrame' = [stepFrame EXCEPT !.paddingPackets = Tail(@)]
     /\ UNCHANGED <<mu, pc, clock, tickChan, rrIndex, lastPacket, streamsKept, pacerKept, offPacerMu>>

\* the deferred p.mu.Unlock() of step; run is back at its select
stepUnlock ==
  /\ pc["run"] = "Write"
  /\ stepFrame.paddingPackets = <<>>
  /\ Unlock("run")
  /\ stepFrame' = NoFrame
  /\ pc' = [pc EXCEPT !["run"] = "select"]
  /\ UNCHANGED <<clock, tickChan, budget, rrIndex, lastPacket, streamsKept, pacerKept, padClosed, offPacerMu>>

\* SetTargetBitrate that goes on without the mutex
setLockSkipped ==
  /\ pc["SetTargetBitrate"] = "Lock"
  /\ pc' = [pc EXCEPT !["SetTargetBitrate"] = "SetTargetRate"]
  /\ UNCHANGED <<mu, stepFrame, clock, tickChan, budget, rrIndex, lastPacket, streamsKept, pacerKept, padClosed, offPacerMu>>

setLock ==
  /\ pc["SetTargetBitrate"] = "Lock"
  /\ Lock("SetTargetBitrate")
  /\ pc' = [pc EXCEPT !["SetTargetBitrate"] = "SetTargetRate"]
  /\ UNCHANGED <<stepFrame, clock, tickChan, budget, rrIndex, lastPacket, streamsKept, pacerKept, padClosed, offPacerMu>>

setTargetRate(bps) ==
  /\ pc["SetTargetBitrate"] = "SetTargetRate"
  /\ budget' = SetTargetRate(budget, bps, clock)
  /\ pc' = [pc EXCEPT !["SetTargetBitrate"] = "Unlock"]
  /\ UNCHANGED <<mu, stepFrame, clock, tickChan, rrIndex, lastPacket, streamsKept, pacerKept, padClosed, offPacerMu>>

\* the deferred unlock; the caller is at its next call
setUnlock ==
  /\ pc["SetTargetBitrate"] = "Unlock"
  /\ Unlock("SetTargetBitrate")
  /\ pc' = [pc EXCEPT !["SetTargetBitrate"] = "Lock"]
  /\ UNCHANGED <<stepFrame, clock, tickChan, budget, rrIndex, lastPacket, streamsKept, pacerKept, padClosed, offPacerMu>>

writeLock ==
  /\ pc["Write"] = "Lock"
  /\ Lock("Write")
  /\ pc' = [pc EXCEPT !["Write"] = "UseBudget"]
  /\ UNCHANGED <<stepFrame, clock, tickChan, budget, rrIndex, lastPacket, streamsKept, pacerKept, padClosed, offPacerMu>>

\* the writer bound for ssrc: UseBudget and the update of p.lastPacket
writeUseBudget(ssrc, size, same) ==
  /\ pc["Write"] = "UseBudget"
  /\ ssrc \in closures
  /\ budget' = UseBudget(budget, size, clock)
  /\ lastPacket' = IF same THEN [lastPacket EXCEPT ![ssrc] = size] ELSE lastPacket
  /\ pc' = [pc EXCEPT !["Write"] = "Unlock"]
  /\ UNCHANGED <<mu, stepFrame, clock, tickChan, rrIndex, streamsKept, pacerKept, padClosed, offPacerMu>>

writeUnlock ==
  /\ pc["Write"] = "Unlock"
  /\ Unlock("Write")
  /\ pc' = [pc EXCEPT !["Write"] = "writer.Write"]
  /\ UNCHANGED <<stepFrame, clock, tickChan, budget, rrIndex, lastPacket, streamsKept, pacerKept, padClosed, offPacerMu>>

\* return writer.Write(header, payload, attributes); the caller is at its next call
writeForward ==
  /\ pc["Write"] = "writer.Write"
  /\ pc' = [pc EXCEPT !["Write"] = "Lock"]
  /\ UNCHANGED <<mu, stepFrame, clock, tickChan, budget, rrIndex, lastPacket, streamsKept, pacerKept, padClosed, offPacerMu>>

streamLock ==
  /\ pc["streams"] = "Lock"
  /\ Lock("streams")
  /\ pc' = [pc EXCEPT !["streams"] = "body"]
  /\ UNCHANGED <<stepFrame, clock, tickChan, budget, rrIndex, lastPacket, streamsKept, pacerKept, padClosed, offPacerMu>>

\* BindLocalStream of a stream with retransmission, up to its unlock
streamBind(ssrc) ==
  LET rr == roundRobinAdd([items |-> rrItems, index |-> rrIndex], ssrc)
  IN /\ pc["streams"] = "body"
     /\ writers' = writers \cup {ssrc}
     /\ rrItems' = rr.items
     /\ rrIndex' = rr.index
     /\ rtxOf' = rtxOf \cup {ssrc}
     /\ closures' = closures \cup {ssrc}
     /\ pc' = [pc EXCEPT !["streams"] = "Unlock"]
     /\ UNCHANGED <<mu, stepFrame, clock, tickChan, budget, lastPacket, pacerKept, padClosed, offPacerMu>>

\* UnbindLocalStream, up to its unlock
streamUnbind(ssrc) ==
  LET rr == roundRobinRemove([items |-> rrItems, index |-> rrIndex], ssrc)
  IN /\ pc["streams"] = "body"
     /\ writers' = writers \ {ssrc}
     /\ rrItems' = rr.items
     /\ rrIndex' = rr.index
     /\ rtxOf' = rtxOf \ {ssrc}
     /\ lastPacket' = [lastPacket EXCEPT ![ssrc] = 0]
     /\ pc' = [pc EXCEPT !["streams"] = "Unlock"]
     /\ UNCHANGED <<mu, stepFrame, clock, tickChan, budget, closures, pacerKept, padClosed, offPacerMu>>

streamUnlock ==
  /\ pc["streams"] = "Unlock"
  /\ Unlock("streams")
  /\ pc' = [pc EXCEPT !["streams"] = "Lock"]
  /\ UNCHANGED <<stepFrame, clock, tickChan, budget, rrIndex, lastPacket, streamsKept, pacerKept, padClosed, offPacerMu>>

\* two streams bound with retransmission, a packet of each cached, a full
\* one-millisecond bucket
InitMutexPacer ==
  /\ clock = 0
  /\ tickChan = <<>>
  /\ done = FALSE
  /\ running = TRUE
  /\ budget = newIntervalBudget(BurstRate, 1, 0)
  /\ rrItems = <<1, 2>>
  /\ rrIndex = 0
  /\ writers = {1, 2}
  /\ rtxOf = {1, 2}
  /\ closures = {1, 2}
  /\ lastPacket = [s \in SSRCs |-> IF s \in writers THEN 1 ELSE 0]
  /\ padCount = [s \in SSRCs |-> 0]
  /\ padPair = TRUE
  /\ wrOk = TRUE
  /\ wrFloor = FALSE
  /\ rrWait = [s \in SSRCs |-> {}]
  /\ rrTwice = FALSE
  /\ closedTicks = 0

\* the streams of the statement-level runs
MutexSSRCs == {1, 2}

NextMutex ==
  \/ Advance
  \/ TickerFire
  \/ runReceive
  \/ stepLock
  \/ stepBytesRemaining
  \/ \E failN \in 0..MaxCopyFail : stepGetPadding(failN)
  \/ \E extra \in RtxExtra : stepWrite(extra, "nil")
  \/ stepUnlock
  \/ setLock
  \/ \E bps \in {PadRate, BurstRate} : setTargetRate(bps)
  \/ setUnlock
  \/ writeLock
  \/ \E ssrc \in MutexSSRCs, size \in 1..MaxPktBytes : writeUseBudget(ssrc, size, TRUE)
  \/ writeUnlock
  \/ writeForward
  \/ streamLock
  \/ \E ssrc \in MutexSSRCs : streamBind(ssrc)
  \/ \E ssrc \in MutexSSRCs : streamUnbind(ssrc)
  \/ streamUnlock

\* the worker alone, with writers that may fail
NextPadWrite ==
  \/ Advance
  \/ TickerFire
  \/ runReceive
  \/ stepLock
  \/ stepBytesRemaining
  \/ stepGetPadding(0)
  \/ \E res \in WriteErrs : stepWrite(0, res)
  \/ stepUnlock

\* ------------------------------------------- gcc: usage, state, transition
usageUnder == -1
usageNormal == 0
usageOver == 1
Usages == {usageUnder, usageNormal, usageOver}

stateDecrease == -1
stateHold == 0
stateIncrease == 1
States == {stateDecrease, stateHold, stateIncrease}

\* values of the int types usage and state beyond the named constants
MaxEnumAbs == 2
EnumInts == (-MaxEnumAbs)..MaxEnumAbs

\* transition computed from the usage alone
transitionNegate(s, u) == -u

transition(s, u) ==
  CASE s = stateHold ->
         (CASE u = usageOver   -> stateDecrease
            [] u = usageNormal -> stateIncrease
            [] u = usageUnder  -> stateHold
            [] OTHER           -> stateIncrease)
    [] s = stateIncrease ->
         (CASE u = usageOver   -> stateDecrease
            [] u = usageNormal -> stateIncrease
            [] u = usageUnder  -> stateHold
            [] OTHER           -> stateIncrease)
    [] s = stateDecrease ->
         (CASE u = usageOver   -> stateDecrease
            [] u = usageNormal -> stateHold
            [] u = usageUnder  -> stateHold
            [] OTHER           -> stateIncrease)
    [] OTHER -> stateIncrease

\* ------------------------------------- congestion-control interceptor
DefaultInitialRate == 100000
MaxCcSteps == 3       \* bitrates are 1..MaxCcSteps halves of DefaultInitialRate
SampleCap == 2        \* cap of DelayRateController.samples

CcRates == {k * (DefaultInitialRate \div 2) : k \in 1..MaxCcSteps}
RawRates == {0} \cup CcRates \cup {(MaxCcSteps + 1) * (DefaultInitialRate \div 2)}

\* options.InitialRate of cc.NewInterceptor when no Option is given
FactoryInitialRate == DefaultInitialRate

\* the estimator's output: clamp(min(r_delay, r_loss), r_min, r_max)
OnAcks(raw, minRate, maxRate) == Min(Max(raw, minRate), maxRate)

GetTargetBitrate == target

InitGccVars ==
  /\ \E mn \in CcRates, mx \in CcRates, ini \in CcRates :
       /\ mn <= ini /\ ini <= mx
       /\ ccMin = mn /\ ccMax = mx /\ ccInitial = ini
  /\ target = FactoryInitialRate
  /\ rcState \in States
  /\ latestUsage = usageNormal
  /\ samples = 0
  /\ rcLast = <<>>

\* the reader bound by BindRTCPReader gets a feedback report: the estimator's
\* result is stored as the target
OnFeedback(raw) ==
  /\ target' = OnAcks(raw, ccMin, ccMax)
  /\ UNCHANGED <<ccInitial, ccMin, ccMax, rcState, latestUsage, samples, rcLast>>
  /\ UNCHANGED offGcc

\* DelayRateController.OnPacketAcked when a group is emitted and a previous
\* one is stored: the overuse detector gives its verdict u
OnPacketAcked(u) ==
  /\ samples < SampleCap
  /\ samples' = samples + 1
  /\ latestUsage' = u
  /\ UNCHANGED <<ccInitial, ccMin, ccMax, target, rcState, rcLast>>
  /\ UNCHANGED offGcc

\* Update that forgets the verdict it has used
UpdateClearing ==
  /\ rcState' = transition(rcState, latestUsage)
  /\ rcLast' = <<rcState, latestUsage>>
  /\ latestUsage' = usageNormal
  /\ UNCHANGED <<ccInitial, ccMin, ccMax, target, samples>>
  /\ UNCHANGED offGcc

\* DelayRateController.Update: the rate controller moves on the latest usage
Update ==
  /\ rcState' = transition(rcState, latestUsage)
  /\ rcLast' = <<rcState, latestUsage>>
  /\ UNCHANGED <<ccInitial, ccMin, ccMax, target, latestUsage, samples>>
  /\ UNCHANGED offGcc

gccKept == <<ccInitial, ccMin, ccMax, rcState, latestUsage, samples, rcLast>>
offFeedback == <<pvars, avars, mvars, svars, rest>>

\* a bound writer that passes the packet on whatever OnSent returned
ccBoundWriterForwarding(sentErr, res) ==
  [sentErr |-> sentErr, passed |-> 1, n |-> res.n, err |-> res.err]

\* the writer returned by BindLocalStream: sentErr says whether
\* feedbackAdapter.OnSent fails, res is what the next writer returns
ccBoundWriter(sentErr, res) ==
  IF sentErr THEN [sentErr |-> TRUE, passed |-> 0, n |-> 0, err |-> "OnSent"]
  ELSE [sentErr |-> FALSE, passed |-> 1, n |-> res.n, err |-> res.err]

ccWrite(sentErr, res) ==
  /\ ccOut' = <<ccBoundWriter(sentErr, res)>>
  /\ UNCHANGED <<rd, acksDone, targetSeq, target, gccKept, offFeedback>>

NextGcc ==
  \/ \E raw \in RawRates : OnFeedback(raw)
  \/ \E u \in Usages : OnPacketAcked(u)
  \/ Update
  \/ \E sentErr \in BOOLEAN, res \in UnderResults(1) : ccWrite(sentErr, res)

\* ------------------------- cc interceptor: RTCP readers and RTP writers
MaxBatch == 2         \* most RTCP packets in one compound batch
MaxAcks == 2          \* cap of the estimator.OnAcks calls

\* one RTCP read goroutine per track (Sender.SetupPeerConnection)
Readers == {1, 2}

\* the packets of a batch: a TransportLayerCC the feedback adapter accepts, one
\* it returns an error for, a CCFeedbackReport, any other RTCP packet
Reports == {"TransportLayerCC", "TransportLayerCC bad", "CCFeedbackReport", "other"}
Batches == UNION {[1..n -> Reports] : n \in 1..MaxBatch}

NoOut == [seq |-> 0, value |-> 0]

InitFeedbackVars ==
  /\ rd = [r \in Readers |-> [pc |-> "Read", pkts |-> <<>>, out |-> NoOut, err |-> "nil"]]
  /\ acksDone = 0
  /\ targetSeq = 0
  /\ ccOut = <<>>

\* the body of the loop over pkts that calls OnAcks although the adapter failed
reportOutcomeUnchecked(pkt) ==
  IF pkt \in {"TransportLayerCC", "TransportLayerCC bad", "CCFeedbackReport"} THEN "OnAcks"
  ELSE "continue"

\* the body of the loop over pkts, up to the call of OnAcks
reportOutcome(pkt) ==
  IF pkt = "TransportLayerCC bad" THEN "return err"
  ELSE IF pkt \in {"TransportLayerCC", "CCFeedbackReport"} THEN "OnAcks"
  ELSE "continue"

\* reader.Read and attr.GetRTCPPackets succeed
readBatch(r, pkts) ==
  /\ rd[r].pc = "Read"
  /\ rd' = [rd EXCEPT ![r] = [@ EXCEPT !.pc = "range", !.pkts = pkts]]
  /\ UNCHANGED <<acksDone, targetSeq, ccOut, target, gccKept, offFeedback>>

\* reader.Read or attr.GetRTCPPackets fails; the loop of the sender returns
readFail(r) ==
  /\ rd[r].pc = "Read"
  /\ rd' = [rd EXCEPT ![r] = [@ EXCEPT !.pc = "returned", !.err = "Read"]]
  /\ UNCHANGED <<acksDone, targetSeq, ccOut, target, gccKept, offFeedback>>

\* one pass of the loop over pkts up to the return of OnAcks
rangePkts(r, raw) ==
  LET pkt == Head(rd[r].pkts)
      what == reportOutcome(pkt)
  IN /\ rd[r].pc = "range"
     /\ rd[r].pkts # <<>>
     /\ what = "OnAcks" => acksDone < MaxAcks
     /\ acksDone' = IF what = "OnAcks" THEN acksDone + 1 ELSE acksDone
     /\ rd' = [rd EXCEPT ![r] =
                 IF what = "return err"
                   THEN [@ EXCEPT !.pc = "returned", !.err = "OnTransportCCFeedback"]
                 ELSE IF what = "continue" THEN [@ EXCEPT !.pkts = Tail(@)]
                 ELSE [@ EXCEPT !.pc = "Store",
                                !.out = [seq |-> acksDone + 1,
                                         value |-> OnAcks(raw, ccMin, ccMax)]]]
     /\ UNCHANGED <<targetSeq, ccOut, target, gccKept, offFeedback>>

\* c.target.Store of the value OnAcks returned
targetStore(r) ==
  /\ rd[r].pc = "Store"
  /\ target' = rd[r].out.value
  /\ targetSeq' = rd[r].out.seq
  /\ rd' = [rd EXCEPT ![r] = [@ EXCEPT !.pc = "range", !.pkts = Tail(@), !.out = NoOut]]
  /\ UNCHANGED <<acksDone, ccOut, gccKept, offFeedback>>

\* return i, attr, nil; the loop of the sender reads again
readReturn(r) ==
  /\ rd[r].pc = "range"
  /\ rd[r].pkts = <<>>
  /\ rd' = [rd EXCEPT ![r] = [@ EXCEPT !.pc = "Read"]]
  /\ UNCHANGED <<acksDone, targetSeq, ccOut, target, gccKept, offFeedback>>

\* the interceptor built with the default options, nothing read yet
InitFeedbackGcc ==
  /\ ccInitial = DefaultInitialRate
  /\ ccMin = DefaultInitialRate \div 2
  /\ ccMax = MaxCcSteps * (DefaultInitialRate \div 2)
  /\ target = FactoryInitialRate
  /\ rcState = stateHold
  /\ latestUsage = usageNormal
  /\ samples = 0
  /\ rcLast = <<>>

NextFeedback ==
  \/ \E r \in Readers, pkts \in Batches : readBatch(r, pkts)
  \/ \E r \in Readers : readFail(r)
  \/ \E r \in Readers, raw \in {0, DefaultInitialRate} : rangePkts(r, raw)
  \/ \E r \in Readers : targetStore(r)
  \/ \E r \in Readers : readReturn(r)

\* ---------------------------------------------------------- Sender.Start
initialBitrate == 300000
PacerInitialBitrate == 1000000
PacerMaxBucketMs == 500

\* the values c.target.Store publishes in the runs of Start
SenderTargets == CcRates \cup {initialBitrate}

InitSenderVars ==
  /\ sw = [pc |-> "estimatorChan", targetBitrate |-> 0]
  /\ lastBitrate = initialBitrate
  /\ lastRead = <<>>
  /\ allocSet = <<>>
  /\ enc = "notStarted"
  /\ ctxDone = FALSE
  /\ sTick = FALSE
  /\ closer = [pc |-> "idle", running |-> FALSE]

offSender == <<pvars, avars, mvars, fvars, gccKept, rest>>

\* a reader of the cc interceptor stores a new target
targetChange(v) ==
  /\ target' = v
  /\ UNCHANGED <<svars, offSender>>

\* the 100 ms ticker of Start (capacity 1)
senderTickerFire ==
  /\ ~sTick
  /\ sTick' = TRUE
  /\ UNCHANGED <<sw, lastBitrate, lastRead, allocSet, enc, ctxDone, closer, target, offSender>>

\* the caller of Start cancels its context
cancel ==
  /\ ~ctxDone
  /\ ctxDone' = TRUE
  /\ UNCHANGED <<sw, lastBitrate, lastRead, allocSet, enc, sTick, closer, target, offSender>>

\* case estimator = <-s.estimatorChan
workerEstimator ==
  /\ sw.pc = "estimatorChan"
  /\ sw' = [sw EXCEPT !.pc = "select"]
  /\ UNCHANGED <<lastBitrate, lastRead, allocSet, enc, ctxDone, sTick, closer, target, offSender>>

\* case <-ctx.Done() of either select of the allocator goroutine
workerCtxDone ==
  /\ sw.pc \in {"estimatorChan", "select"}
  /\ ctxDone
  /\ sw' = [sw EXCEPT !.pc = "returned"]
  /\ UNCHANGED <<lastBitrate, lastRead, allocSet, enc, ctxDone, sTick, closer, target, offSender>>

\* case now := <-ticker.C, up to the call of s.bitrateAllocator.SetTargetBitrate:
\* encoderBitrateAllocator hands the rate to the source, which sends it on
\* the unbuffered s.updateTargetBitrate
workerTick ==
  LET targetBitrate == GetTargetBitrate
  IN /\ sw.pc = "select"
     /\ sTick
     /\ sTick' = FALSE
     /\ lastRead' = <<targetBitrate>>
     /\ sw' = IF lastBitrate # targetBitrate
                THEN [pc |-> "updateTargetBitrate <-", targetBitrate |-> targetBitrate]
                ELSE sw
     /\ UNCHANGED <<lastBitrate, allocSet, enc, ctxDone, closer, target, offSender>>

\* StatisticalEncoderSource.Start up to its select
sourceStart ==
  /\ enc = "notStarted"
  /\ enc' = "select"
  /\ UNCHANGED <<sw, lastBitrate, lastRead, allocSet, ctxDone, sTick, closer, target, offSender>>

\* case rate := <-s.updateTargetBitrate meets the send of the allocator
\* goroutine, which goes on to lastBitrate = targetBitrate and its select
sourceRate ==
  /\ enc = "select"
  /\ sw.pc = "updateTargetBitrate <-"
  /\ allocSet' = <<sw.targetBitrate>>
  /\ lastBitrate' = sw.targetBitrate
  /\ sw' = [pc |-> "select", targetBitrate |-> 0]
  /\ UNCHANGED <<lastRead, enc, ctxDone, sTick, closer, target, offSender>>

\* case frame := <-s.newFrame; a failing sampleWriter ends Start with its
\* error, and the errgroup cancels the context
sourceFrame(ok) ==
  /\ enc = "select"
  /\ enc' = IF ok THEN "select" ELSE "returned"
  /\ ctxDone' = (ctxDone \/ ~ok)
  /\ UNCHANGED <<sw, lastBitrate, lastRead, allocSet, sTick, closer, target, offSender>>

\* case <-ctx.Done() of StatisticalEncoderSource.Start
sourceCtxDone ==
  /\ enc = "select"
  /\ ctxDone
  /\ enc' = "returned"
  /\ UNCHANGED <<sw, lastBitrate, lastRead, allocSet, ctxDone, sTick, closer, target, offSender>>

\* StatisticalEncoderSource.Close: close(s.done), then the deferred s.wg.Wait()
encoderClose ==
  /\ closer.pc = "idle"
  /\ closer' = [pc |-> "Wait", running |-> (enc = "select")]
  /\ UNCHANGED <<sw, lastBitrate, lastRead, allocSet, enc, ctxDone, sTick, target, offSender>>

\* s.wg.Wait() returns when no Start is between its wg.Add(1) and wg.Done()
encoderCloseReturn ==
  /\ closer.pc = "Wait"
  /\ enc # "select"
  /\ closer' = [closer EXCEPT !.pc = "returned"]
  /\ UNCHANGED <<sw, lastBitrate, lastRead, allocSet, enc, ctxDone, sTick, target, offSender>>

\* wg.Wait() of Start has returned
StartReturned == sw.pc = "returned" /\ enc = "returned"

\* the pacer made by the factory of the Pacing option, no stream bound
InitSenderPacer ==
  /\ InitStreams
  /\ budget = newIntervalBudget(PacerInitialBitrate, PacerMaxBucketMs * UnitsPerMs, 0)

NextSender ==
  \/ \E v \in SenderTargets : targetChange(v)
  \/ senderTickerFire
  \/ cancel
  \/ workerEstimator
  \/ workerCtxDone
  \/ workerTick
  \/ sourceStart
  \/ sourceRate
  \/ \E ok \in BOOLEAN : sourceFrame(ok)
  \/ sourceCtxDone
  \/ encoderClose
  \/ encoderCloseReturn

\* every goroutine is scheduled; cancelling, closing, frames and feedback are
\* up to the environment
FairSender ==
  /\ WF_vars(workerEstimator) /\ WF_vars(workerCtxDone) /\ WF_vars(workerTick)
  /\ WF_vars(sourceStart) /\ WF_vars(sourceRate) /\ WF_vars(sourceCtxDone)
  /\ WF_vars(encoderCloseReturn) /\ WF_vars(senderTickerFire)

\* --------------------------------- simulcast sources and the allocator
MaxSources == 2       \* most simulcast sources of the allocator

\* simulcast_configs_presets.standard
Standard == << [Name |-> "180p", Bitrate |-> 225000],
               [Name |-> "360p", Bitrate |-> 591000],
               [Name |-> "720p", Bitrate |-> 1753000] >>

\* the same layers listed in another order
Shuffled == << [Name |-> "720p", Bitrate |-> 1753000],
               [Name |-> "180p", Bitrate |-> 225000],
               [Name |-> "360p", Bitrate |-> 591000] >>

TwoLayers == << [Name |-> "high", Bitrate |-> 900000],
                [Name |-> "low", Bitrate |-> 300000] >>

LayerConfigs == {Standard, Shuffled, TwoLayers}
UnknownQuality == "1080p"
TargetBitrates == {0, 500000, 1200000, 1600000, 2500000, 4500000}

NamesOf(qs) == {qs[k].Name : k \in 1..Len(qs)}

\* sort.Slice on a short slice: insertion sort with less = Bitrate <
RECURSIVE insertByBitrate(_, _)
insertByBitrate(sorted, q) ==
  IF sorted = <<>> THEN <<q>>
  ELSE IF q.Bitrate < sorted[Len(sorted)].Bitrate
    THEN Append(insertByBitrate(SubSeq(sorted, 1, Len(sorted) - 1), q), sorted[Len(sorted)])
    ELSE Append(sorted, q)

RECURSIVE sortByBitrate(_)
sortByBitrate(qs) ==
  IF qs = <<>> THEN <<>>
  ELSE insertByBitrate(sortByBitrate(SubSeq(qs, 1, Len(qs) - 1)), qs[Len(qs)])

\* GetQualities without the sort: the layers in configuration order
GetQualitiesUnsorted(qs, cur) ==
  [k \in 1..Len(qs) |->
     [Name |-> qs[k].Name, Bitrate |-> qs[k].Bitrate, Active |-> (qs[k].Name = cur)]]

\* TraceCodecSource.GetQualities for configuration qs and current quality cur
GetQualities(qs, cur) ==
  sortByBitrate([k \in 1..Len(qs) |->
                   [Name |-> qs[k].Name, Bitrate |-> qs[k].Bitrate,
                    Active |-> (qs[k].Name = cur)]])

\* SetQuality without the lookup in the traces
TraceCodecSetQualityUnchecked(cur, names, quality) == [cur |-> quality, err |-> FALSE]

\* TraceCodec.SetQuality on a codec whose traces have the keys names
TraceCodecSetQuality(cur, names, quality) ==
  IF quality \notin names THEN [cur |-> cur, err |-> TRUE]
  ELSE [cur |-> quality, err |-> FALSE]

\* the video share with a slipped decimal point
targetVideoBitrateSlipped(targetBitrate) == TruncDiv(targetBitrate * 8, 100)

\* int(float64(targetBitrate) * 0.8)
targetVideoBitrate(targetBitrate) == TruncDiv(targetBitrate * 8, 10)

RECURSIVE sumActive(_, _)
sumActive(list, k) ==
  IF k = 0 THEN 0
  ELSE sumActive(list, k - 1) + (IF list[k].Active THEN list[k].Bitrate ELSE 0)

RECURSIVE currentBitrateOf(_, _, _)
currentBitrateOf(qss, cur, n) ==
  IF n = 0 THEN 0
  ELSE currentBitrateOf(qss, cur, n - 1)
       + sumActive(GetQualities(qss[n], cur[n]), Len(qss[n]))

\* the scans of the two loops: i is the source, j the 0-based index the code keeps
raiseCandidates(qss, cur) ==
  {c \in UNION {{[i |-> i, j |-> j, b |-> GetQualities(qss[i], cur[i])[j + 1].Bitrate]
                   : j \in 0..(Len(qss[i]) - 2)} : i \in 1..Len(qss)} :
     GetQualities(qss[c.i], cur[c.i])[c.j + 1].Active}

lowerCandidates(qss, cur) ==
  {c \in UNION {{[i |-> i, j |-> j, b |-> GetQualities(qss[i], cur[i])[j + 2].Bitrate]
                   : j \in 0..(Len(qss[i]) - 2)} : i \in 1..Len(qss)} :
     /\ GetQualities(qss[c.i], cur[c.i])[c.j + 2].Active
     /\ c.b > 0}

Earlier(c, d) == c.i < d.i \/ (c.i = d.i /\ c.j <= d.j)

\* a scan that keeps the first active layer with an alternative it meets
minimumBitrateFirstFound(cands) ==
  CHOOSE c \in cands : \A d \in cands : Earlier(c, d)

\* the first candidate of strictly smallest (largest) bitrate in scan order
minimumBitrateWithAlternative(cands) ==
  CHOOSE c \in cands : \A d \in cands : c.b < d.b \/ (c.b = d.b /\ Earlier(c, d))

maximumBitrate(cands) ==
  CHOOSE c \in cands : \A d \in cands : c.b > d.b \/ (c.b = d.b /\ Earlier(c, d))

\* the raise loop stopped after its first switch
raiseOnce(st, qss, tv) ==
  IF st.status # "ok" \/ ~(st.bitrate < tv) THEN st
  ELSE
    LET cands == raiseCandidates(qss, st.cur)
    IN IF cands = {} THEN st
       ELSE
         LET c    == minimumBitrateWithAlternative(cands)
             nxt  == GetQualities(qss[c.i], st.cur[c.i])[c.j + 2]
             diff == nxt.Bitrate - c.b
             r    == TraceCodecSetQuality(st.cur[c.i], NamesOf(qss[c.i]), nxt.Name)
         IN IF st.bitrate + diff > tv THEN st
            ELSE [cur     |-> [st.cur EXCEPT ![c.i] = r.cur],
                  bitrate |-> st.bitrate + diff,
                  calls   |-> st.calls + 1,
                  status  |-> IF r.err THEN "err" ELSE "ok"]

\* st = [cur, bitrate, calls, status]
RECURSIVE raiseLoop(_, _, _)
raiseLoop(st, qss, tv) ==
  IF st.status # "ok" \/ ~(st.bitrate < tv) THEN st
  ELSE
    LET cands == raiseCandidates(qss, st.cur)
    IN IF cands = {} THEN st
       ELSE
         LET c    == minimumBitrateWithAlternative(cands)
             nxt  == GetQualities(qss[c.i], st.cur[c.i])[c.j + 2]
             diff == nxt.Bitrate - c.b
             r    == TraceCodecSetQuality(st.cur[c.i], NamesOf(qss[c.i]), nxt.Name)
         IN IF st.bitrate + diff > tv THEN st
            ELSE raiseLoop([cur     |-> [st.cur EXCEPT ![c.i] = r.cur],
                            bitrate |-> st.bitrate + diff,
                            calls   |-> st.calls + 1,
                            status  |-> IF r.err THEN "err" ELSE "ok"],
                           qss, tv)

RECURSIVE lowerLoop(_, _, _)
lowerLoop(st, qss, tv) ==
  IF st.status # "ok" \/ ~(st.bitrate > tv) THEN st
  ELSE
    LET cands == lowerCandidates(qss, st.cur)
    IN IF cands = {} THEN st
       ELSE
         LET c == maximumBitrate(cands)
         IN IF c.j - 1 < 0 THEN [st EXCEPT !.status = "panic"]
            ELSE
              LET nxt  == GetQualities(qss[c.i], st.cur[c.i])[c.j]
                  diff == nxt.Bitrate - c.b
                  r    == TraceCodecSetQuality(st.cur[c.i], NamesOf(qss[c.i]), nxt.Name)
              IN IF st.bitrate + diff < tv THEN st
                 ELSE lowerLoop([cur     |-> [st.cur EXCEPT ![c.i] = r.cur],
                                 bitrate |-> st.bitrate + diff,
                                 calls   |-> st.calls + 1,
                                 status  |-> IF r.err THEN "err" ELSE "ok"],
                                qss, tv)

\* simulcastBitrateAllocator.SetTargetBitrate from the current qualities cur
SetTargetBitrate(qss, cur, targetBitrate) ==
  LET tv  == targetVideoBitrate(targetBitrate)
      st0 == [cur |-> cur, bitrate |-> currentBitrateOf(qss, cur, Len(qss)),
              calls |-> 0, status |-> "ok"]
  IN lowerLoop(raiseLoop(st0, qss, tv), qss, tv)

NoAlloc == [target |-> <<>>, calls |-> 0, status |-> "none",
            prev |-> <<>>, before |-> <<>>]

InitAllocVars ==
  /\ \E n \in 1..MaxSources :
       /\ srcQualities \in [1..n -> LayerConfigs]
       /\ currentQuality \in [1..n -> UNION {NamesOf(qs) : qs \in LayerConfigs}]
       /\ \A k \in 1..n : currentQuality[k] \in NamesOf(srcQualities[k])
  /\ alloc = NoAlloc
  /\ sqErr = FALSE

\* the allocator is given a target; a panic ends the process
AllocSetTargetBitrate(targetBitrate) ==
  LET st == SetTargetBitrate(srcQualities, currentQuality, targetBitrate)
  IN /\ alloc.status # "panic"
     /\ currentQuality' = st.cur
     /\ alloc' = [target |-> <<targetBitrate>>, calls |-> st.calls, status |-> st.status,
                  prev |-> IF alloc.status = "ok" THEN alloc.target ELSE <<>>,
                  before |-> currentQuality]
     /\ UNCHANGED <<srcQualities, sqErr>>
     /\ UNCHANGED offAlloc

\* TraceCodecSource.SetQuality called from outside the allocator
SourceSetQuality(i, quality) ==
  LET r == TraceCodecSetQuality(currentQuality[i], NamesOf(srcQualities[i]), quality)
  IN /\ alloc.status # "panic"
     /\ i \in 1..Len(srcQualities)
     /\ currentQuality' = [currentQuality EXCEPT ![i] = r.cur]
     /\ sqErr' = (sqErr \/ r.err)
     /\ alloc' = NoAlloc
     /\ UNCHANGED srcQualities
     /\ UNCHANGED offAlloc

NextAlloc ==
  \/ \E t \in TargetBitrates : AllocSetTargetBitrate(t)
  \/ \E i \in 1..MaxSources, q \in NamesOf(Standard) \cup NamesOf(TwoLayers) \cup {UnknownQuality} :
       SourceSetQuality(i, q)

\* ------------------------------------------- constructors and codecs
\* bitrates handed to the constructors, negative ones too
ConfigRates == EnumInts

InitConfigVars ==
  /\ built = <<>>
  /\ scTarget = <<>>
  /\ tc = <<>>

offConfig == <<pvars, gvars, avars, mvars, fvars, svars, dvars, xvars>>

\* the GCC sender option applied to a Sender: cc.NewInterceptor gets a
\* factory closure and no Option, so it returns no error; twccErr is the
\* result of webrtc.ConfigureTWCCHeaderExtensionSender
GCCOption(initBitrate, minBitrate, maxBitrate, twccErr) ==
  [what |-> "GCC", initial |-> initBitrate, min |-> minBitrate, max |-> maxBitrate,
   err |-> IF twccErr THEN "ConfigureTWCCHeaderExtensionSender" ELSE "nil",
   usable |-> ~twccErr]

\* cc.NewInterceptor with options o once every Option has returned nil (an
\* Option may set any field of o; none of the fields is validated)
ccNewInterceptor(o) ==
  [what |-> "cc.NewInterceptor", initial |-> o.InitialRate, min |-> o.MinRate,
   max |-> o.MaxRate, err |-> "nil", usable |-> TRUE]

\* pacing.NewInterceptorFactory(WithInitialBitrate(initBitrate)) and
\* InterceptorFactory.NewInterceptor
pacingNewInterceptor(initBitrate) ==
  [what |-> "pacing.NewInterceptor", initial |-> initBitrate, min |-> 0, max |-> 0,
   err |-> "nil", usable |-> TRUE]

BuildGCC(initBitrate, minBitrate, maxBitrate, twccErr) ==
  /\ built' = <<GCCOption(initBitrate, minBitrate, maxBitrate, twccErr)>>
  /\ UNCHANGED <<scTarget, tc, offConfig>>

BuildCc(initBitrate, minBitrate, maxBitrate) ==
  /\ built' = <<ccNewInterceptor([InitialRate |-> initBitrate, MinRate |-> minBitrate,
                                  MaxRate |-> maxBitrate])>>
  /\ UNCHANGED <<scTarget, tc, offConfig>>

BuildPacer(initBitrate) ==
  /\ built' = <<pacingNewInterceptor(initBitrate)>>
  /\ UNCHANGED <<scTarget, tc, offConfig>>

NextConfig ==
  \/ \E i, mn, mx \in ConfigRates, twccErr \in BOOLEAN : BuildGCC(i, mn, mx, twccErr)
  \/ \E i, mn, mx \in ConfigRates : BuildCc(i, mn, mx)
  \/ \E i \in ConfigRates : BuildPacer(i)

\* ------------------------------------------------- syncodec encoders
defaultTargetBitrateBps == 1000000
defaultRMin == 150000
defaultRMax == 150000000

\* bitrates given to WithInitialTargetBitrate and SetTargetBitrate
ScRates == {-1, 0, defaultRMin - 1, defaultRMin, defaultTargetBitrateBps,
            defaultRMax, defaultRMax + 1}

minimum(a, b) == IF a < b THEN a ELSE b
maximum(a, b) == IF a > b THEN a ELSE b

\* StatisticalCodec.SetTargetBitrate(r) on a codec whose target is cur
scSetTargetBitrate(cur, r) ==
  IF r < cur THEN maximum(r, defaultRMin) ELSE minimum(r, defaultRMax)

\* NewStatisticalEncoder(w, WithInitialTargetBitrate(x)), or with no option
\* when withOption is FALSE: the option stores x, then the constructor
\* calls sc.SetTargetBitrate(sc.targetBitrateBps)
NewStatisticalEncoder(withOption, x) ==
  LET targetBitrateBps == IF withOption THEN x ELSE defaultTargetBitrateBps
  IN /\ ~withOption => x = defaultTargetBitrateBps
     /\ scTarget' = <<[target |-> scSetTargetBitrate(targetBitrateBps, targetBitrateBps),
                       op |-> "NewStatisticalEncoder", r |-> targetBitrateBps,
                       before |-> targetBitrateBps]>>
     /\ UNCHANGED <<built, tc, offConfig>>

StatisticalCodecSetTargetBitrate(r) ==
  /\ scTarget # <<>>
  /\ scTarget' = <<[target |-> scSetTargetBitrate(scTarget[1].target, r),
                    op |-> "SetTargetBitrate", r |-> r, before |-> scTarget[1].target]>>
  /\ UNCHANGED <<built, tc, offConfig>>

\* the keys of the traces given to NewTraceCodec; NoQuality stands for a
\* call without WithInitialQuality
TraceNames == NamesOf(TwoLayers)
NoQuality == ""

\* NewTraceCodec that takes the initial quality as it comes
NewTraceCodecUnchecked(traces, initial, first) ==
  IF traces = {} THEN [ok |-> FALSE, err |-> TRUE, currentQuality |-> NoQuality]
  ELSE [ok |-> TRUE, err |-> FALSE,
        currentQuality |-> IF initial = NoQuality THEN first ELSE initial]

\* NewTraceCodec(writer, traces, WithInitialQuality(initial)); first is the
\* key that the range over the map yields first
NewTraceCodecResult(traces, initial, first) ==
  IF traces = {} THEN [ok |-> FALSE, err |-> TRUE, currentQuality |-> NoQuality]
  ELSE IF initial # NoQuality /\ initial \notin traces
    THEN [ok |-> FALSE, err |-> TRUE, currentQuality |-> NoQuality]
  ELSE [ok |-> TRUE, err |-> FALSE,
        currentQuality |-> IF initial = NoQuality THEN first ELSE initial]

NewTraceCodec(traces, initial, first) ==
  LET r == NewTraceCodecResult(traces, initial, first)
  IN /\ traces # {} => first \in traces
     /\ traces = {} => first = NoQuality
     /\ tc' = <<[traces |-> traces, ok |-> r.ok, currentQuality |-> r.currentQuality,
                 op |-> "NewTraceCodec", arg |-> initial, err |-> r.err,
                 before |-> NoQuality]>>
     /\ UNCHANGED <<built, scTarget, offConfig>>

\* TraceCodec.SetQuality(quality) followed by GetCurrentQuality()
TraceCodecSetQualityCall(quality) ==
  /\ tc # <<>>
  /\ tc[1].ok
  /\ LET r == TraceCodecSetQuality(tc[1].currentQuality, tc[1].traces, quality)
     IN tc' = <<[tc[1] EXCEPT !.currentQuality = r.cur, !.op = "SetQuality",
                              !.arg = quality, !.err = r.err,
                              !.before = tc[1].currentQuality]>>
  /\ UNCHANGED <<built, scTarget, offConfig>>

NextCodec ==
  \/ \E withOption \in BOOLEAN, x \in ScRates : NewStatisticalEncoder(withOption, x)
  \/ \E r \in ScRates : StatisticalCodecSetTargetBitrate(r)
  \/ \E traces \in SUBSET TraceNames, initial \in TraceNames \cup {UnknownQuality, NoQuality},
        first \in TraceNames \cup {NoQuality} : NewTraceCodec(traces, initial, first)
  \/ \E quality \in TraceNames \cup {UnknownQuality} : TraceCodecSetQualityCall(quality)

\* ------------------------------------------------- DelayRateController
burstIntervalMs == 5
maxBurstDurationMs == 100
MaxAckSeq == 4        \* acknowledgments given to one DelayRateController

burstInterval == burstIntervalMs * UnitsPerMs
maxBurstDuration == maxBurstDurationMs * UnitsPerMs

\* departure and arrival times around the two thresholds, in clock units.
\* Only differences of departures and differences of arrivals are used, so
\* the first ack is the origin of both; packets are acknowledged in the
\* order of their departure
DepartureInstants == {0, burstInterval, maxBurstDuration + burstInterval}
ArrivalInstants == {0, 1, burstInterval, maxBurstDuration}
AckSizes == {1, 2}
Acks == [Departure : DepartureInstants, Arrival : ArrivalInstants, Size : AckSizes]

NilGroup == [nil |-> TRUE, group |-> <<>>]

InitArrivalVars ==
  /\ agaNext = <<>>
  /\ acked = 0
  /\ drcLast = <<>>
  /\ kfLast = <<>>
  /\ kfCalls = 0
  /\ agaOut = <<>>

\* an accumulator that closes the burst when the ack arrives exactly one
\* burst interval after the last one
onPacketAckedStrict(next, ack) ==
  IF Len(next) = 0 THEN [next |-> Append(next, ack), ret |-> NilGroup]
  ELSE IF ack.Departure - next[1].Departure < burstInterval
    THEN [next |-> Append(next, ack), ret |-> NilGroup]
  ELSE LET sendTimeDelta == ack.Departure - next[1].Departure
           arrivalTimeDeltaLast == ack.Arrival - next[Len(next)].Arrival
           arrivalTimeDeltaFirst == ack.Arrival - next[1].Arrival
           propagationDelta == arrivalTimeDeltaFirst - sendTimeDelta
       IN IF /\ propagationDelta < 0
             /\ arrivalTimeDeltaLast < burstInterval
             /\ arrivalTimeDeltaFirst < maxBurstDuration
            THEN [next |-> Append(next, ack), ret |-> NilGroup]
            ELSE [next |-> <<ack>>, ret |-> [nil |-> FALSE, group |-> next]]

\* arrivalGroupAccumulator.onPacketAcked: the new a.next and the result
onPacketAcked(next, ack) ==
  IF Len(next) = 0 THEN [next |-> Append(next, ack), ret |-> NilGroup]
  ELSE IF ack.Departure - next[1].Departure < burstInterval
    THEN [next |-> Append(next, ack), ret |-> NilGroup]
  ELSE LET sendTimeDelta == ack.Departure - next[1].Departure
           arrivalTimeDeltaLast == ack.Arrival - next[Len(next)].Arrival
           arrivalTimeDeltaFirst == ack.Arrival - next[1].Arrival
           propagationDelta == arrivalTimeDeltaFirst - sendTimeDelta
       IN IF /\ propagationDelta < 0
             /\ arrivalTimeDeltaLast <= burstInterval
             /\ arrivalTimeDeltaFirst < maxBurstDuration
            THEN [next |-> Append(next, ack), ret |-> NilGroup]
            ELSE [next |-> <<ack>>, ret |-> [nil |-> FALSE, group |-> next]]

RECURSIVE groupSize(_)
groupSize(group) ==
  IF group = <<>> THEN 0 ELSE Head(group).Size + groupSize(Tail(group))

\* a sample measured between the first acks of the two groups
interGroupSampleFirst(last, next) ==
  LET interArrivalTime == next[1].Arrival - last[1].Arrival
      interDepartureTime == next[1].Departure - last[1].Departure
      interGroupDelay == interArrivalTime - interDepartureTime
  IN [measurement |-> Milliseconds(interGroupDelay),
      sizeDelta |-> groupSize(next) - groupSize(last),
      prev |-> last, next |-> next]

\* the arguments of kf.update in OnPacketAcked, with the two groups they
\* were computed from
interGroupSample(last, next) ==
  LET interArrivalTime == next[Len(next)].Arrival - last[Len(last)].Arrival
      interDepartureTime == next[Len(next)].Departure - last[Len(last)].Departure
      interGroupDelay == interArrivalTime - interDepartureTime
  IN [measurement |-> Milliseconds(interGroupDelay),
      sizeDelta |-> groupSize(next) - groupSize(last),
      prev |-> last, next |-> next]

offArrival == <<pvars, avars, mvars, fvars, svars, cvars, xvars>>

\* DelayRateController.OnPacketAcked(ack); u is the verdict of the overuse
\* detector when a sample is taken (and the usage kept when none is)
DelayRateControllerOnPacketAcked(ack, u) ==
  LET r == onPacketAcked(agaNext, ack)
      next == r.ret.group
  IN /\ acked < MaxAckSeq
     /\ acked = 0 => (ack.Departure = 0 /\ ack.Arrival = 0)
     /\ agaNext # <<>> => agaNext[Len(agaNext)].Departure <= ack.Departure
     /\ acked' = acked + 1
     /\ agaNext' = r.next
     /\ agaOut' = <<[before |-> agaNext, ack |-> ack, ret |-> r.ret]>>
     /\ IF r.ret.nil \/ Len(next) = 0
          THEN /\ u = latestUsage
               /\ UNCHANGED <<drcLast, kfLast, kfCalls, samples, latestUsage>>
        ELSE IF Len(drcLast) = 0
          THEN /\ u = latestUsage
               /\ drcLast' = next
               /\ UNCHANGED <<kfLast, kfCalls, samples, latestUsage>>
        ELSE /\ kfLast' = <<interGroupSample(drcLast, next)>>
             /\ kfCalls' = kfCalls + 1
             /\ samples' = samples + 1
             /\ latestUsage' = u
             /\ drcLast' = next
     /\ UNCHANGED <<ccInitial, ccMin, ccMax, target, rcState, rcLast>>
     /\ UNCHANGED offArrival

NextArrival ==
  \E ack \in Acks, u \in Usages : DelayRateControllerOnPacketAcked(ack, u)

\* the controller as the send-side estimator drives it: acks of one size, and
\* Update between them
NextDrc ==
  \/ \E ack \in Acks, u \in Usages :
       ack.Size = 1 /\ DelayRateControllerOnPacketAcked(ack, u)
  \/ Update

\* --------------------------------------------- single calls and loops
MaxFrames == 2        \* frames a source takes from its codec

\* a media source and the codec goroutine it starts. src and codec are the
\* positions of Start and of the codec's Start; ctx, srcDone and codecDone
\* say whether the context is cancelled and s.done and c.done are closed
NoProd == [kind |-> "trace", src |-> "idle", codec |-> "notStarted", ctx |-> FALSE,
           srcDone |-> FALSE, codecDone |-> FALSE, frames |-> 0]
NoSnap == [pc |-> "idle", src |-> 0, i |-> 0, qualities |-> <<>>]
NoPadding == [pc |-> "idle", maxBytes |-> 0, bytes |-> 0, left |-> 0,
              fits |-> FALSE, result |-> <<>>]

InitLoopVars ==
  /\ ubOut = <<>>
  /\ gp = NoPadding
  /\ snap = NoSnap
  /\ prod = NoProd

\* the budgets a pacer can hold at time 0: any target rate and window, any
\* balance within [-MaxTokensInBudget, MaxTokensInBudget]
BudgetStates ==
  UNION {{[newIntervalBudget(r, w, 0) EXCEPT !.tok = k * TokensPerByte] :
            k \in -((w * r) \div TokensPerByte)..((w * r) \div TokensPerByte)} :
         r \in Rates, w \in 1..MaxWindowMs}

InitBudget ==
  /\ InitStreams
  /\ budget \in BudgetStates

\* one call of intervalBudget.UseBudget(bytes, time.Now())
UseBudgetCall(bytes) ==
  /\ budget' = UseBudget(budget, bytes, clock)
  /\ ubOut' = <<[before |-> budget, bytes |-> bytes, now |-> clock, after |-> budget']>>
  /\ UNCHANGED <<clock, tickChan, done, running, rrItems, rrIndex, writers, rtxOf,
                 lastPacket, closures, padCount, padPair, wrOk, wrFloor, rrWait, rrTwice, closedTicks>>
  /\ UNCHANGED <<gvars, avars, mvars, fvars, svars, cvars, dvars, gp, snap, prod>>

NextBudget ==
  \/ Advance
  \/ \E bytes \in 0..(MaxPktBytes + 1) : UseBudgetCall(bytes)

\* ------------------------------------ getPadding, one statement at a time
\* gp.pc is the worker's position in getPadding, called by step with the
\* mutex held: "idle" outside the call, "for" at the head of the outer loop,
\* "range" in the inner loop with gp.left calls of Next to go, "return".
gpKept == <<clock, tickChan, done, running, budget, rrItems, writers, rtxOf, lastPacket,
            closures, padCount, padPair, wrOk, wrFloor, rrWait, rrTwice, closedTicks>>

offPadding == <<gvars, avars, mvars, fvars, svars, cvars, dvars, ubOut, snap, prod>>

\* step calls getPadding(availiableBytes); an empty round-robin returns nil
gpCall(maxBytes) ==
  /\ gp.pc = "idle"
  /\ gp' = [NoPadding EXCEPT !.pc = IF Len(rrItems) = 0 THEN "return" ELSE "for",
                             !.maxBytes = maxBytes]
  /\ UNCHANGED <<gpKept, rrIndex, offPadding>>

\* for bytes < maxBytes { packetFits := false; for range i.roundRobin.Size()
gpFor ==
  /\ gp.pc = "for"
  /\ gp' = IF gp.bytes < gp.maxBytes
             THEN [gp EXCEPT !.pc = "range", !.fits = FALSE, !.left = Len(rrItems)]
             ELSE [gp EXCEPT !.pc = "return"]
  /\ UNCHANGED <<gpKept, rrIndex, offPadding>>

\* one pass of the inner loop; ok tells whether packetFactory.NewPacket
\* makes the copy
gpRange(ok) ==
  /\ gp.pc = "range"
  /\ gp.left > 0
  /\ LET rr   == [items |-> rrItems, index |-> rrIndex]
         ssrc == roundRobinNextItem(rr)
         size == lastPacket[ssrc]
         g1   == [gp EXCEPT !.left = gp.left - 1]
     IN /\ rrIndex' = roundRobinNext(rr).index
        /\ gp' = IF size = 0 \/ size >= gp.maxBytes - gp.bytes THEN g1
                 ELSE IF ~ok THEN [g1 EXCEPT !.fits = TRUE]
                 ELSE [g1 EXCEPT !.fits = TRUE,
                                 !.bytes = gp.bytes + size,
                                 !.result = Append(gp.result, [ssrc |-> ssrc, size |-> size])]
  /\ UNCHANGED <<gpKept, offPadding>>

\* if !packetFits { break }
gpBreak ==
  /\ gp.pc = "range"
  /\ gp.left = 0
  /\ gp' = [gp EXCEPT !.pc = IF gp.fits THEN "for" ELSE "return"]
  /\ UNCHANGED <<gpKept, rrIndex, offPadding>>

\* return paddingPackets
gpReturn ==
  /\ gp.pc = "return"
  /\ gp' = [gp EXCEPT !.pc = "idle"]
  /\ UNCHANGED <<gpKept, rrIndex, offPadding>>

\* between two ticks streams are bound and media packets are written
NextPadding ==
  \/ \E ssrc \in SSRCs : gp.pc = "idle" /\ BindLocalStream(ssrc, TRUE)
  \/ \E ssrc \in SSRCs, size \in 1..MaxPktBytes :
       gp.pc = "idle" /\ Write(ssrc, size, TRUE, [n |-> size, err |-> "nil"])
  \/ \E maxBytes \in 0..(MaxPktBytes + 2) : gpCall(maxBytes)
  \/ gpFor
  \/ \E ok \in BOOLEAN : gpRange(ok)
  \/ gpBreak
  \/ gpReturn

\* the worker goroutine keeps running once it is inside getPadding
FairPadding ==
  /\ WF_vars(gpFor)
  /\ WF_vars(\E ok \in BOOLEAN : gpRange(ok))
  /\ WF_vars(gpBreak)
  /\ WF_vars(gpReturn)

\* ----------------------------- GetQualities, one loop pass at a time
\* snap.pc is the caller's position in TraceCodecSource.GetQualities of
\* source snap.src: "idle", "range" before pass snap.i of the loop over
\* s.qualities, "returned" with the sorted list in snap.qualities. Every
\* pass calls codec.GetCurrentQuality, which takes and releases the read
\* lock on its own, so SetQuality can run between two passes.
offSnap == <<pvars, gvars, mvars, fvars, svars, cvars, dvars, ubOut, gp, prod>>

gqCall(src) ==
  /\ snap.pc \in {"idle", "returned"}
  /\ src \in 1..Len(srcQualities)
  /\ snap' = [pc |-> "range", src |-> src, i |-> 1, qualities |-> <<>>]
  /\ UNCHANGED <<avars, offSnap>>

gqRange ==
  /\ snap.pc = "range"
  /\ snap.i <= Len(srcQualities[snap.src])
  /\ LET q == srcQualities[snap.src][snap.i]
     IN snap' = [snap EXCEPT !.i = snap.i + 1,
                             !.qualities = Append(snap.qualities,
                                [Name |-> q.Name, Bitrate |-> q.Bitrate,
                                 Active |-> (q.Name = currentQuality[snap.src])])]
  /\ UNCHANGED <<avars, offSnap>>

gqSortReturn ==
  /\ snap.pc = "range"
  /\ snap.i > Len(srcQualities[snap.src])
  /\ snap' = [snap EXCEPT !.pc = "returned", !.qualities = sortByBitrate(snap.qualities)]
  /\ UNCHANGED <<avars, offSnap>>

NextSnapshot ==
  \/ \E src \in 1..MaxSources : gqCall(src)
  \/ gqRange
  \/ gqSortReturn
  \/ \E i \in 1..MaxSources, q \in NamesOf(Standard) \cup {UnknownQuality} :
       SourceSetQuality(i, q)

\* ------------------------------------------- roundRobin, call by call
\* the items given to Add and Remove
RoundRobinItems == 1..(NumSSRC + 2)

rrKept == <<clock, tickChan, done, running, budget, writers, rtxOf, lastPacket, closures,
            padCount, padPair, wrOk, wrFloor, rrWait, rrTwice, closedTicks>>

rrAdd(item) ==
  LET rr == roundRobinAdd([items |-> rrItems, index |-> rrIndex], item)
  IN /\ rrItems' = rr.items
     /\ rrIndex' = rr.index
     /\ UNCHANGED <<rrKept, offPacer>>

rrRemove(item) ==
  LET rr == roundRobinRemove([items |-> rrItems, index |-> rrIndex], item)
  IN /\ rrItems' = rr.items
     /\ rrIndex' = rr.index
     /\ UNCHANGED <<rrKept, offPacer>>

\* Next: on an empty round-robin it returns (0, false) and changes nothing
rrNext ==
  /\ rrItems' = rrItems
  /\ rrIndex' = IF Len(rrItems) = 0 THEN rrIndex
                ELSE roundRobinNext([items |-> rrItems, index |-> rrIndex]).index
  /\ UNCHANGED <<rrKept, offPacer>>

NextRoundRobin ==
  \/ \E item \in RoundRobinItems : rrAdd(item)
  \/ \E item \in RoundRobinItems : rrRemove(item)
  \/ rrNext

\* ------------------------------------ media sources and their codecs
SourceKinds == {"trace", "statistical"}

offProd == <<pvars, gvars, avars, mvars, fvars, svars, cvars, dvars, ubOut, gp, snap>>

InitProd == prod \in {[NoProd EXCEPT !.kind = k] : k \in SourceKinds}

\* Start up to its select: go s.codec.Start()
srcStart ==
  /\ prod.src = "idle"
  /\ prod' = [prod EXCEPT !.src = "select", !.codec = "select"]
  /\ UNCHANGED offProd

\* the codec has a frame and calls c.writer.WriteFrame: the bare send
\* s.newFrame <- frame on the unbuffered channel. TraceCodec takes the
\* default case only while c.done is open; StatisticalCodec selects between
\* its timer and c.done
codecWriteFrame ==
  /\ prod.codec = "select"
  /\ prod.kind = "trace" => ~prod.codecDone
  /\ prod' = [prod EXCEPT !.codec = "WriteFrame"]
  /\ UNCHANGED offProd

\* case <-c.done: return
codecDoneCase ==
  /\ prod.codec = "select"
  /\ prod.codecDone
  /\ prod' = [prod EXCEPT !.codec = "returned"]
  /\ UNCHANGED offProd

\* case frame := <-s.newFrame: the send of the codec completes, then
\* s.sampleWriter returns nil (ok) or an error
srcNewFrame(ok) ==
  /\ prod.src = "select"
  /\ prod.codec = "WriteFrame"
  /\ prod.frames < MaxFrames
  /\ prod' = [prod EXCEPT !.codec = "select", !.frames = @ + 1,
                          !.src = IF ok THEN "select" ELSE "return"]
  /\ UNCHANGED offProd

\* case <-ctx.Done(): return nil
srcCtxDone ==
  /\ prod.src = "select"
  /\ prod.ctx
  /\ prod' = [prod EXCEPT !.src = "return"]
  /\ UNCHANGED offProd

\* case <-s.done: return nil (TraceCodecSource only)
srcDoneCase ==
  /\ prod.src = "select"
  /\ prod.kind = "trace"
  /\ prod.srcDone
  /\ prod' = [prod EXCEPT !.src = "return"]
  /\ UNCHANGED offProd

\* the deferred calls of Start: s.codec.Close() closes c.done, s.wg.Done()
srcReturn ==
  /\ prod.src = "return"
  /\ prod' = [prod EXCEPT !.src = "returned", !.codecDone = TRUE]
  /\ UNCHANGED offProd

\* the context is cancelled
prodCancel ==
  /\ ~prod.ctx
  /\ prod' = [prod EXCEPT !.ctx = TRUE]
  /\ UNCHANGED offProd

\* Close of a started source: close(s.done)
prodClose ==
  /\ prod.src # "idle"
  /\ ~prod.srcDone
  /\ prod' = [prod EXCEPT !.srcDone = TRUE]
  /\ UNCHANGED offProd

NextProd ==
  \/ srcStart
  \/ codecWriteFrame
  \/ codecDoneCase
  \/ \E ok \in BOOLEAN : srcNewFrame(ok)
  \/ srcCtxDone
  \/ srcDoneCase
  \/ srcReturn
  \/ prodCancel
  \/ prodClose

\* every goroutine that can take a step takes one
FairProd ==
  /\ WF_vars(codecWriteFrame)
  /\ WF_vars(codecDoneCase)
  /\ WF_vars(\E ok \in BOOLEAN : srcNewFrame(ok))
  /\ WF_vars(srcCtxDone)
  /\ WF_vars(srcDoneCase)
  /\ WF_vars(srcReturn)

\* ------------------------------------------------------ specifications
IdlePacer ==
  /\ InitPacerVars
  /\ budget = newIntervalBudget(0, 1, 0)

IdleGcc ==
  /\ InitGccVars
  /\ ccMin = DefaultInitialRate /\ ccMax = DefaultInitialRate
  /\ rcState = stateHold

IdleAlloc ==
  /\ InitAllocVars
  /\ srcQualities = <<Standard>>
  /\ currentQuality = <<"360p">>

IdleMutex == InitMutexVars
IdleFeedback == InitFeedbackVars
IdleSender == InitSenderVars
IdleRest == InitConfigVars /\ InitArrivalVars /\ InitLoopVars

\* the other components at rest
PacerOnly == IdleGcc /\ IdleAlloc /\ IdleMutex /\ IdleFeedback /\ IdleSender /\ IdleRest

GccOnly == IdlePacer /\ IdleAlloc /\ IdleMutex /\ IdleFeedback /\ IdleSender /\ IdleRest
AllocOnly == IdlePacer /\ IdleGcc /\ IdleMutex /\ IdleFeedback /\ IdleSender /\ IdleRest

InitPacer == InitPacerVars /\ PacerOnly
SpecPacer == InitPacer /\ [][NextPacer]_vars

\* the pacer between two ticks, after streams were bound in some order, packets
\* written and padding sent: any enrolment order, any cached sizes, any balance
\* within the bounds of a one-millisecond bucket
Enrolments ==
  {q \in UNION {[1..n -> SSRCs] : n \in 0..NumSSRC} :
     \A i, j \in 1..Len(q) : i # j => q[i] # q[j]}

InitTick ==
  /\ clock = 0
  /\ tickChan = <<>>
  /\ done = FALSE
  /\ running = TRUE
  /\ \E r \in {PadRate, BurstRate} :
       \E k \in -(r \div TokensPerByte)..(r \div TokensPerByte) :
         budget = [newIntervalBudget(r, 1, 0) EXCEPT !.tok = k * TokensPerByte]
  /\ rrItems \in Enrolments
  /\ rrIndex = 0
  /\ writers = SeqToSet(rrItems)
  /\ rtxOf = writers
  /\ closures = writers
  /\ lastPacket \in [SSRCs -> 0..MaxPktBytes]
  /\ \A x \in SSRCs : x \notin writers => lastPacket[x] = 0
  /\ padCount = [x \in SSRCs |-> 0]
  /\ padPair = TRUE
  /\ wrOk = TRUE
  /\ wrFloor = FALSE
  /\ rrWait = [x \in SSRCs |-> {}]
  /\ rrTwice = FALSE
  /\ closedTicks = 0

NextTick ==
  \/ TickerFire
  \/ \E extra \in RtxExtra, failN \in 0..MaxCopyFail : Step(extra, failN)

InitTicks == InitTick /\ PacerOnly
SpecTick == InitTicks /\ [][NextTick]_vars

InitMutex == InitMutexPacer /\ InitMutexVars /\ IdleGcc /\ IdleAlloc /\ IdleFeedback /\ IdleSender /\ IdleRest
SpecMutex == InitMutex /\ [][NextMutex]_vars
SpecPadWrite == InitMutex /\ [][NextPadWrite]_vars

InitPadding == InitPad /\ PacerOnly
SpecPad == InitPadding /\ [][NextPad]_vars

InitPadBurst == InitBurst /\ PacerOnly
SpecPadBurst == InitPadBurst /\ [][NextPad]_vars

InitFeedback == InitFeedbackGcc /\ InitFeedbackVars /\ IdlePacer /\ IdleAlloc /\ IdleMutex /\ IdleSender /\ IdleRest
SpecFeedback == InitFeedback /\ [][NextFeedback]_vars

InitSender ==
  /\ InitSenderVars /\ InitSenderPacer /\ InitFeedbackGcc
  /\ IdleAlloc /\ IdleMutex /\ IdleFeedback /\ IdleRest
SpecSender == InitSender /\ [][NextSender]_vars
SpecSenderFair == SpecSender /\ FairSender

InitConfig ==
  /\ InitConfigVars /\ InitArrivalVars /\ InitLoopVars
  /\ IdlePacer /\ IdleGcc /\ IdleAlloc /\ IdleMutex /\ IdleFeedback /\ IdleSender
SpecConfig == InitConfig /\ [][NextConfig]_vars

InitBudgets == InitBudget /\ PacerOnly

InitRoundRobin == IdlePacer /\ PacerOnly

SpecGetPadding == InitPadding /\ [][NextPadding]_vars
SpecGetPaddingFair == SpecGetPadding /\ FairPadding
SpecRoundRobin == InitRoundRobin /\ [][NextRoundRobin]_vars

InitProducer ==
  /\ InitProd /\ ubOut = <<>> /\ gp = NoPadding /\ snap = NoSnap
  /\ InitConfigVars /\ InitArrivalVars
  /\ IdlePacer /\ IdleGcc /\ IdleAlloc /\ IdleMutex /\ IdleFeedback /\ IdleSender
SpecProducer == InitProducer /\ [][NextProd]_vars
SpecProducerFair == SpecProducer /\ FairProd
SpecBudget == InitBudgets /\ [][NextBudget]_vars
SpecCodec == InitConfig /\ [][NextCodec]_vars

InitArrival ==
  /\ InitArrivalVars /\ InitConfigVars /\ InitLoopVars
  /\ IdlePacer /\ IdleGcc /\ IdleAlloc /\ IdleMutex /\ IdleFeedback /\ IdleSender
SpecArrival == InitArrival /\ [][NextArrival]_vars
SpecDrc == InitArrival /\ [][NextDrc]_vars

InitGcc == InitGccVars /\ GccOnly
SpecGcc == InitGcc /\ [][NextGcc]_vars

InitAlloc == InitAllocVars /\ AllocOnly
SpecAlloc == InitAlloc /\ [][NextAlloc]_vars
SpecSnapshot == InitAlloc /\ [][NextSnapshot]_vars

\* ---------------------------------------------------------------- claims

\* C1: the pacer's token balance stays within [-MaxTokensInBudget,
\* MaxTokensInBudget] under every interleaving of SetTargetBitrate, writes
\* and worker ticks, also when a tick's fire time is older than the time of a
\* write that reached the budget before it.
C1_TokenBounds == -budget.max <= budget.tok /\ budget.tok <= budget.max

\* C2: from the creation of the congestion-control interceptor on,
\* GetTargetBitrate() lies between the minimum and the maximum bitrate the
\* send-side controller was built with, before the first feedback report too.
C2_TargetClamped == ccMin <= GetTargetBitrate /\ GetTargetBitrate <= ccMax

\* the transition table of the specification, row by row
SpecTable(s, u) ==
  CASE s = stateHold     /\ u = usageOver   -> stateDecrease
    [] s = stateHold     /\ u = usageNormal -> stateIncrease
    [] s = stateHold     /\ u = usageUnder  -> stateHold
    [] s = stateIncrease /\ u = usageOver   -> stateDecrease
    [] s = stateIncrease /\ u = usageNormal -> stateIncrease
    [] s = stateIncrease /\ u = usageUnder  -> stateHold
    [] s = stateDecrease /\ u = usageOver   -> stateDecrease
    [] s = stateDecrease /\ u = usageNormal -> stateHold
    [] s = stateDecrease /\ u = usageUnder  -> stateHold

\* C3: for each of the nine (state, usage) pairs state.transition returns the
\* entry of the table, and so does every step the rate controller takes.
C3_TransitionTable ==
  /\ \A s \in States, u \in Usages : transition(s, u) = SpecTable(s, u)
  /\ rcLast # <<>> => rcState = SpecTable(rcLast[1], rcLast[2])

C3_Witness == rcLast = <<stateDecrease, usageNormal>> /\ rcState = stateHold

\* C4: state.transition is defined and returns Hold, Increase or Decrease for
\* every value of the types state and usage, so the rate-controller state
\* never leaves these three states.
C4_Totality ==
  /\ \A s \in EnumInts, u \in EnumInts : transition(s, u) \in States
  /\ rcState \in States

C4_Witness ==
  /\ rcLast = <<stateIncrease, usageUnder>> /\ rcState = stateHold
  /\ samples = SampleCap

\* C5: every packet written through the writer returned by the pacer's
\* BindLocalStream goes to the underlying writer exactly once whatever the
\* token balance, and the caller gets the underlying writer's byte count and
\* error unchanged.
C5_WritesNeverGated == wrOk

C5_Witness == wrFloor /\ wrOk /\ budget.max > 0 /\ budget.tok = -budget.max

\* the layers GetQualities marks Active for source i
ActiveLayers(i) ==
  {k \in 1..Len(srcQualities[i]) :
     GetQualities(srcQualities[i], currentQuality[i])[k].Active}

\* C6: for sources with pairwise distinct quality names, after construction and
\* after any sequence of SetQuality calls (known or unknown names) and
\* allocator SetTargetBitrate calls, GetQualities() marks exactly one layer
\* Active.
C6_OneActive == \A i \in 1..Len(srcQualities) : Cardinality(ActiveLayers(i)) = 1

C6_Witness == sqErr /\ alloc.status = "ok" /\ alloc.calls > 0

OneStandardSource == Len(srcQualities) = 1 /\ srcQualities[1] = Standard

\* C7 as stated: for one source with the standard layers and any initially
\* active layer, SetTargetBitrate(1600000) completes with 360p active and a
\* following SetTargetBitrate(2500000) completes with 720p active.
C7_Original ==
  (OneStandardSource /\ alloc.status = "ok") =>
    /\ alloc.target = <<1600000>> => currentQuality[1] = "360p"
    /\ (alloc.target = <<2500000>> /\ alloc.prev = <<1600000>>) => currentQuality[1] = "720p"

\* C7 amended: for one source with the standard layers, SetTargetBitrate(1600000)
\* completes with 360p active when 180p or 360p was active before it (720p stays
\* active when it was), and a following SetTargetBitrate(2500000) completes with
\* 720p active.
C7_Scenario ==
  (OneStandardSource /\ alloc.status = "ok") =>
    /\ (alloc.target = <<1600000>> /\ alloc.before[1] \in {"180p", "360p"})
         => currentQuality[1] = "360p"
    /\ (alloc.target = <<1600000>> /\ alloc.before[1] = "720p")
         => currentQuality[1] = "720p"
    /\ (alloc.target = <<2500000>> /\ alloc.prev = <<1600000>>) => currentQuality[1] = "720p"

C7_Witness ==
  /\ OneStandardSource /\ alloc.status = "ok"
  /\ alloc.target = <<2500000>> /\ alloc.prev = <<1600000>>
  /\ alloc.before[1] = "360p" /\ currentQuality[1] = "720p"

\* C8: a second SetTargetBitrate(T) issued right after a first successful
\* SetTargetBitrate(T) makes no SetQuality call and leaves every source's
\* active layer as it was.
C8_Idempotent ==
  (alloc.prev # <<>> /\ alloc.prev = alloc.target) =>
    /\ alloc.status = "ok"
    /\ alloc.calls = 0
    /\ currentQuality = alloc.before

C8_Witness ==
  /\ alloc.prev # <<>> /\ alloc.prev = alloc.target
  /\ Len(srcQualities) = 2
  /\ currentBitrateOf(srcQualities, currentQuality, 2) < targetVideoBitrate(alloc.target[1])
  /\ raiseCandidates(srcQualities, currentQuality) # {}

\* C9: between two consecutive times roundRobin.Next returns the same SSRC,
\* every other SSRC that stayed enrolled during the whole span is returned by
\* Next at least once.
C9_RoundRobinFair == ~rrTwice

C9_Witness ==
  /\ Len(rrItems) = 2 /\ padPair
  /\ padCount[rrItems[1]] >= 1
  /\ rrWait[rrItems[1]] = {} /\ rrWait[rrItems[2]] = {rrItems[1]}

\* C10: with two retransmission-capable SSRCs enrolled, both with a cached
\* last packet of one size, the numbers of padding packets written for the two
\* differ by at most 1 after any number of worker ticks.
C10_PaddingBalance ==
  (padPair /\ TwoEqualEnrolled) =>
    /\ padCount[rrItems[1]] - padCount[rrItems[2]] <= 1
    /\ padCount[rrItems[2]] - padCount[rrItems[1]] <= 1

\* the cached sizes of the padding packets one tick added, SSRCs 1..n
RECURSIVE paddingBytes(_, _, _, _)
paddingBytes(new, old, lp, n) ==
  IF n = 0 THEN 0
  ELSE paddingBytes(new, old, lp, n - 1) + (new[n] - old[n]) * lp[n]

\* C11: in one worker tick, with maxBytes = max(tokens, 0) / 8000 taken after
\* the refill, the padding packets chosen have total cached size strictly
\* below maxBytes, and none is chosen when maxBytes <= 0 or when no SSRC is
\* enrolled.
C11_PaddingBounded ==
  [][(tickChan # <<>> /\ tickChan' = <<>>) =>
       LET maxBytes == BytesRemaining(BytesRemainingBudget(budget, Head(tickChan)))
           total    == paddingBytes(padCount', padCount, lastPacket, NumSSRC)
       IN /\ padCount' # padCount => total < maxBytes
          /\ (maxBytes <= 0 \/ rrItems = <<>>) => padCount' = padCount]_vars

C11_Witness ==
  /\ Len(rrItems) = 2 /\ clock = 0
  /\ padCount[rrItems[1]] = 2 /\ padCount[rrItems[2]] = 1

\* the worker has read the budget of its tick and has not released the mutex
InTick == pc["run"] \in {"getPadding", "Write"}

\* the statements that read or write the token bucket, the round-robin cursor
\* or the last-packet cache
Guarded(g) ==
  IF g = "run" THEN {"BytesRemaining", "getPadding", "Write"}
  ELSE IF g = "SetTargetBitrate" THEN {"SetTargetRate"}
  ELSE IF g = "Write" THEN {"UseBudget"}
  ELSE {"body"}

\* C12: every statement that reads or writes the bucket, the cursor or the
\* cache runs with p.mu held by its goroutine; between the budget read of a
\* tick and its unlock only the worker changes them; a tick is received only
\* while the worker is outside step.
C12_CriticalSection ==
  /\ [](\A g \in Goroutines : pc[g] \in Guarded(g) => mu = g)
  /\ [][(InTick /\ pc'["run"] = pc["run"] /\ stepFrame' = stepFrame)
          => UNCHANGED <<budget, rrItems, rrIndex, lastPacket>>]_vars
  /\ [][(tickChan # <<>> /\ tickChan' = <<>>) => (pc["run"] = "select" /\ mu # "run")]_vars

\* in the middle of the padding debits of a tick, with a SetTargetBitrate call
\* and a bound writer both waiting for the mutex and the next tick already fired
C12_Witness ==
  /\ pc["run"] = "Write"
  /\ Len(stepFrame.paddingPackets) = 1
  /\ budget.tok < budget.max
  /\ pc["SetTargetBitrate"] = "Lock"
  /\ pc["Write"] = "Lock"
  /\ tickChan # <<>>

\* C13: the stored target never goes back from the result of a later OnAcks
\* call to the result of an earlier one, whatever the interleaving of the RTCP
\* read goroutines.
C13_PublicationOrder == [][targetSeq' >= targetSeq]_vars

\* the reader r takes a step at a TransportLayerCC the feedback adapter rejects
AtBadReport(r) ==
  /\ rd[r].pc = "range"
  /\ rd[r].pkts # <<>>
  /\ Head(rd[r].pkts) = "TransportLayerCC bad"
  /\ rd'[r] # rd[r]

\* C18: when the feedback adapter returns an error for a TransportLayerCC
\* report, OnAcks is not called for it and the stored target is left as it was.
C18_ParseErrorUntouched ==
  [][\A r \in Readers :
       AtBadReport(r) => /\ acksDone' = acksDone
                         /\ rd'[r].pc # "Store"
                         /\ target' = target
                         /\ targetSeq' = targetSeq]_vars

\* a reader has returned the adapter's error after a target was stored, and
\* no OnAcks result is waiting to be stored
C18_Witness ==
  /\ \E r \in Readers : rd[r].pc = "returned" /\ rd[r].err = "OnTransportCCFeedback"
  /\ targetSeq = 2
  /\ acksDone = 2
  /\ target # FactoryInitialRate

\* C19: a report that fails to parse does not end the feedback processing:
\* the bound RTCP reader returns an error, and the read loop of the sender
\* ends, only when the underlying read fails, never with reports of a batch
\* left unexamined.
C19_ErrorsLocal ==
  \A r \in Readers : rd[r].pc = "returned" => (rd[r].err = "Read" /\ rd[r].pkts = <<>>)

\* C20: a bound writer whose OnSent fails returns 0 and that error and does
\* not call the next writer; one whose OnSent succeeds calls the next writer
\* exactly once and returns what it returned.
C20_OnSentFailure ==
  ccOut # <<>> =>
    LET o == ccOut[1]
    IN /\ o.sentErr => (o.passed = 0 /\ o.n = 0 /\ o.err = "OnSent")
       /\ ~o.sentErr => (o.passed = 1 /\ o.err # "OnSent")

C20_Witness == ccOut # <<>> /\ ccOut[1].sentErr /\ ccOut[1].passed = 0

\* C15: after Close the worker runs step at most once more before run returns.
C15_CloseStopsWorker == closedTicks <= 1

\* C14: when the allocator goroutine of Start is back at its select after a
\* tick, and the target is still the value it read at that tick, the bitrate
\* allocator and the refill rate of the pacer have both been set to that value.
C14_TargetPropagation ==
  (sw.pc = "select" /\ lastRead = <<target>>) =>
    (allocSet = <<target>> /\ budget.rate = target)

\* C16: the allocator goroutine is never left sending on updateTargetBitrate
\* after the Start loop of the encoder source has returned, where nothing can
\* receive any more and Sender.Start cannot return.
C16_AllocatorNeverBlocked == ~(sw.pc = "updateTargetBitrate <-" /\ enc = "returned")

\* C17: when Close is called while Start runs, Start returns and then Close
\* returns, also when the context is never cancelled.
C17_CloseStopsEncoder ==
  (closer.pc = "Wait" /\ closer.running) ~> (enc = "returned" /\ closer.pc = "returned")

\* the arguments of a constructor call that are no valid configuration
InvalidConfig(b) ==
  IF b.what = "pacing.NewInterceptor" THEN b.initial < 0
  ELSE b.min > b.max \/ b.initial < 0 \/ b.min < 0 \/ b.max < 0

\* C21: a constructor given min_bitrate > max_bitrate or a negative bitrate
\* returns an error and no usable instance.
C21_ConfigErrors ==
  built # <<>> => (InvalidConfig(built[1]) => (built[1].err # "nil" /\ ~built[1].usable))

\* a pass of the write loop of step that hands a padding packet to a writer
PadWriteTo(ssrc) ==
  /\ pc["run"] = "Write"
  /\ stepFrame.paddingPackets # <<>>
  /\ Head(stepFrame.paddingPackets).ssrc = ssrc
  /\ ssrc \in writers
  /\ stepFrame'.paddingPackets = Tail(stepFrame.paddingPackets)

\* C22: once a padding write to a writer returned io.ErrClosedPipe, the pacer
\* sends no more padding to that writer, on this tick and on later ones.
C22_ClosedWriterStops ==
  [][\A ssrc \in MutexSSRCs : PadWriteTo(ssrc) => ssrc \notin padClosed]_vars

\* C23: every group used as prev or next of an inter-group delay sample
\* holds at least two acknowledgments.
C23_GroupsOfTwo ==
  kfLast # <<>> => (Len(kfLast[1].prev) >= 2 /\ Len(kfLast[1].next) >= 2)

\* the grouping rule for ack a and a non-empty current group G
Absorbs(G, a) ==
  \/ a.Departure - G[1].Departure < 5 * UnitsPerMs
  \/ /\ (a.Arrival - G[1].Arrival) - (a.Departure - G[1].Departure) < 0
     /\ a.Arrival - G[Len(G)].Arrival <= 5 * UnitsPerMs
     /\ a.Arrival - G[1].Arrival < 100 * UnitsPerMs

\* C27: onPacketAcked(a) with a non-empty group G appends a and emits
\* nothing exactly when the grouping rule absorbs a; otherwise it emits G
\* unchanged and the group becomes {a}; with an empty group it stores {a}
\* and emits nothing.
C27_GroupingRule ==
  agaOut # <<>> =>
    LET G == agaOut[1].before
        a == agaOut[1].ack
        ret == agaOut[1].ret
    IN IF G = <<>> THEN agaNext = <<a>> /\ ret.nil
       ELSE /\ Absorbs(G, a) <=> (agaNext = G \o <<a>> /\ ret.nil)
            /\ ~Absorbs(G, a) => (~ret.nil /\ ret.group = G /\ agaNext = <<a>>)

\* an ack absorbed by the second alternative at the boundary of 5 ms, and
\* an emitted group of two
C27_Witness ==
  /\ agaOut # <<>>
  /\ LET G == agaOut[1].before
         a == agaOut[1].ack
     IN \/ /\ G # <<>>
           /\ a.Departure - G[1].Departure >= burstInterval
           /\ a.Arrival - G[Len(G)].Arrival = burstInterval
           /\ agaOut[1].ret.nil
        \/ /\ ~agaOut[1].ret.nil
           /\ Len(agaOut[1].ret.group) = 2

\* C28: an emitted group next with a stored group prev updates the filter
\* once with ((next.last.arrival - prev.last.arrival) - (next.last.departure
\* - prev.last.departure)) in whole milliseconds and size(next) - size(prev),
\* adds one to the sample counter and becomes prev; the first emitted group
\* only becomes prev.
C28_InterGroupSample ==
  [][acked' # acked =>
       LET ret == agaOut'[1].ret
           prev == drcLast
           next == ret.group
           d == (next[Len(next)].Arrival - prev[Len(prev)].Arrival)
                - (next[Len(next)].Departure - prev[Len(prev)].Departure)
           ms == IF d >= 0 THEN d \div UnitsPerMs ELSE -((-d) \div UnitsPerMs)
       IN IF ret.nil THEN UNCHANGED <<drcLast, kfLast, kfCalls, samples, latestUsage>>
          ELSE IF prev = <<>>
            THEN drcLast' = next /\ UNCHANGED <<kfLast, kfCalls, samples, latestUsage>>
          ELSE /\ kfCalls' = kfCalls + 1
               /\ kfLast'[1].measurement = ms
               /\ kfLast'[1].sizeDelta = groupSize(next) - groupSize(prev)
               /\ samples' = samples + 1
               /\ drcLast' = next]_vars

\* a sample was taken whose delay is no whole number of milliseconds
C28_Witness ==
  /\ kfCalls = 1 /\ samples = 1
  /\ LET prev == kfLast[1].prev
         next == kfLast[1].next
     IN ((next[Len(next)].Arrival - prev[Len(prev)].Arrival)
         - (next[Len(next)].Departure - prev[Len(prev)].Departure)) % UnitsPerMs # 0

\* C24: GetQualities() returns every configured layer exactly once, in
\* non-decreasing bitrate order, for every order of the configuration and
\* every active layer.
C24_SortedLayers ==
  \A i \in 1..Len(srcQualities) :
    LET cfg == srcQualities[i]
        g == GetQualities(cfg, currentQuality[i])
    IN /\ Len(g) = Len(cfg)
       /\ \A k \in 1..Len(cfg) :
            Cardinality({j \in 1..Len(g) : g[j].Name = cfg[k].Name
                                            /\ g[j].Bitrate = cfg[k].Bitrate}) = 1
       /\ \A j \in 1..(Len(g) - 1) : g[j].Bitrate <= g[j + 1].Bitrate

\* the allocator has read the layers of a source configured highest layer
\* first whose active layer is the middle one
C24_Witness ==
  /\ alloc # NoAlloc
  /\ \E i \in 1..Len(srcQualities) :
       srcQualities[i] = Shuffled /\ currentQuality[i] = "360p"

\* C25: after construction and after every SetTargetBitrate(r) the target is
\* rMax if r > rMax, rMin if r < rMin and r otherwise, so it stays within
\* [rMin, rMax].
C25_Clamped ==
  scTarget # <<>> =>
    LET t == scTarget[1]
    IN /\ t.target = (IF t.r > defaultRMax THEN defaultRMax
                      ELSE IF t.r < defaultRMin THEN defaultRMin ELSE t.r)
       /\ defaultRMin <= t.target /\ t.target <= defaultRMax

\* C26: NewTraceCodec with an initial quality that is no key of the traces
\* fails; SetQuality(q) with unknown q returns an error and leaves the
\* current quality, with known q it returns no error and q is current; the
\* current quality of a codec is always a key of its traces.
C26_KnownQuality ==
  tc # <<>> =>
    LET t == tc[1]
    IN /\ (t.op = "NewTraceCodec" /\ t.arg # NoQuality /\ t.arg \notin t.traces)
            => (~t.ok /\ t.err)
       /\ (t.op = "SetQuality" /\ t.arg \notin t.traces)
            => (t.err /\ t.currentQuality = t.before)
       /\ (t.op = "SetQuality" /\ t.arg \in t.traces)
            => (~t.err /\ t.currentQuality = t.arg)
       /\ t.ok => t.currentQuality \in t.traces

\* SetQuality with an unknown quality was refused on a codec of two traces
C26_Witness ==
  /\ tc # <<>>
  /\ tc[1].op = "SetQuality" /\ tc[1].arg = UnknownQuality
  /\ tc[1].traces = TraceNames /\ tc[1].err

\* the layers of source i, the bitrate of its active layer under the
\* assignment cur of active layers, and the sum of the active bitrates
LayersOf(i) == {srcQualities[i][k] : k \in 1..Len(srcQualities[i])}
ActiveRate(cur, i) == (CHOOSE q \in LayersOf(i) : q.Name = cur[i]).Bitrate
HigherLayers(cur, i) == {q \in LayersOf(i) : q.Bitrate > ActiveRate(cur, i)}
LowerLayers(cur, i) == {q \in LayersOf(i) : q.Bitrate < ActiveRate(cur, i)}
NextHigher(cur, i) ==
  CHOOSE q \in HigherLayers(cur, i) : \A p \in HigherLayers(cur, i) : q.Bitrate <= p.Bitrate
NextLower(cur, i) ==
  CHOOSE q \in LowerLayers(cur, i) : \A p \in LowerLayers(cur, i) : q.Bitrate >= p.Bitrate

RECURSIVE SumRates(_, _)
SumRates(cur, n) == IF n = 0 THEN 0 ELSE SumRates(cur, n - 1) + ActiveRate(cur, n)
SumOf(cur) == SumRates(cur, Len(srcQualities))

TargetVideo == (4 * alloc.target[1]) \div 5

\* the sources whose active layer is the lowest among those that have a
\* higher layer
LowestRaisable(cur) ==
  {i \in 1..Len(srcQualities) :
     /\ HigherLayers(cur, i) # {}
     /\ \A k \in 1..Len(srcQualities) :
          HigherLayers(cur, k) # {} => ActiveRate(cur, i) <= ActiveRate(cur, k)}

\* the results of one raise step from cur
RaiseSteps(cur) ==
  IF SumOf(cur) < TargetVideo
    THEN {c2 \in {[cur EXCEPT ![i] = NextHigher(cur, i).Name] : i \in LowestRaisable(cur)} :
            SumOf(c2) <= TargetVideo}
    ELSE {}

RECURSIVE RaisedFrom(_, _)
RaisedFrom(S, k) ==
  IF k = 0 THEN S ELSE RaisedFrom(UNION {RaiseSteps(c) : c \in S}, k - 1)

\* C29: a call that starts with the sum of active bitrates below
\* target_video changes the active layers by raise steps only, each moving
\* the lowest active layer that has a higher one to the next-higher layer
\* and keeping the sum <= target_video, until no such step is left; a call
\* that starts with sum <= target_video ends with sum <= target_video.
C29_RaiseStep ==
  (alloc # NoAlloc /\ SumOf(alloc.before) <= TargetVideo) =>
    /\ alloc.status = "ok"
    /\ currentQuality \in RaisedFrom({alloc.before}, alloc.calls)
    /\ RaiseSteps(currentQuality) = {}
    /\ SumOf(currentQuality) <= TargetVideo

\* a call raised two sources, or one source by two layers
C29_Witness ==
  /\ alloc # NoAlloc
  /\ SumOf(alloc.before) < TargetVideo
  /\ alloc.calls >= 2
  /\ Len(srcQualities) = 2
  /\ ActiveRate(alloc.before, 1) # ActiveRate(alloc.before, 2)

\* the sources whose active layer is the highest among those that have a
\* lower layer
HighestLowerable(cur) ==
  {i \in 1..Len(srcQualities) :
     /\ LowerLayers(cur, i) # {}
     /\ \A k \in 1..Len(srcQualities) :
          LowerLayers(cur, k) # {} => ActiveRate(cur, i) >= ActiveRate(cur, k)}

\* the results of one lower step from cur
LowerSteps(cur) ==
  IF SumOf(cur) > TargetVideo
    THEN {c2 \in {[cur EXCEPT ![i] = NextLower(cur, i).Name] : i \in HighestLowerable(cur)} :
            SumOf(c2) >= TargetVideo}
    ELSE {}

RECURSIVE LoweredFrom(_, _)
LoweredFrom(S, k) ==
  IF k = 0 THEN S ELSE LoweredFrom(UNION {LowerSteps(c) : c \in S}, k - 1)

\* C30: a call that starts with the sum of active bitrates above
\* target_video completes without an index error and changes the active
\* layers by lower steps only, each moving the highest active layer that
\* has a lower one to the adjacent next-lower layer and keeping the sum
\* >= target_video.
C30_LowerStep ==
  (alloc # NoAlloc /\ SumOf(alloc.before) > TargetVideo) =>
    /\ alloc.status = "ok"
    /\ currentQuality \in LoweredFrom({alloc.before}, alloc.calls)

\* C31: UseBudget(bytes, now) refills for the time since the last refill,
\* capped at max_tokens, then sets the balance to
\* max(tokens - bytes * 8000, -max_tokens); rate, max_tokens and window stay.
C31_DebitOnWrite ==
  ubOut # <<>> =>
    LET b == ubOut[1].before
        a == ubOut[1].after
        elapsedMs == (ubOut[1].now - b.lastIncreased) \div UnitsPerMs
        grown == b.tok + b.rate * elapsedMs
        refilled == IF grown > b.max THEN b.max ELSE grown
        debited == refilled - ubOut[1].bytes * 8000
    IN /\ a.tok = (IF debited < -b.max THEN -b.max ELSE debited)
       /\ a.rate = b.rate /\ a.max = b.max /\ a.Window = b.Window

\* a debit after a refill of a whole millisecond that left the balance
\* above the floor
C31_Witness ==
  /\ ubOut # <<>>
  /\ ubOut[1].now - ubOut[1].before.lastIncreased >= UnitsPerMs
  /\ ubOut[1].before.rate > 0
  /\ ubOut[1].bytes > 0
  /\ ubOut[1].after.tok > -ubOut[1].after.max
  /\ ubOut[1].after.tok > ubOut[1].before.tok - ubOut[1].bytes * 8000

\* C32: after the Start of a media source has returned, the codec goroutine
\* it started terminates; a codec that is handing a frame to WriteFrame at
\* that moment does not stay blocked on the frame channel.
C32_CodecReleased ==
  (prod.src = "returned") ~> (prod.codec = "returned")

\* C39: after any sequence of Add, Remove and Next the items are pairwise
\* distinct and the cursor is within the items (0 when there are none), so
\* Next never indexes out of range.
C39_CursorInRange ==
  /\ \A i, j \in 1..Len(rrItems) : i # j => rrItems[i] # rrItems[j]
  /\ IF Len(rrItems) = 0 THEN rrIndex = 0
     ELSE 0 <= rrIndex /\ rrIndex < Len(rrItems)

\* the cursor stands on the last of several items, the position from which
\* removing the last item must bring it back to 0
C39_Witness ==
  /\ Len(rrItems) >= 2
  /\ rrIndex = Len(rrItems) - 1
  /\ rrItems[1] > rrItems[2]

\* C33: a call of getPadding by the worker tick always returns, also when
\* every attempt to copy a fitting packet fails.
C33_GetPaddingReturns == (gp.pc # "idle") ~> (gp.pc = "idle")

\* C34: the refill at the start of a worker tick never lowers the balance,
\* whatever writes were interleaved before it and whatever the tick's fire
\* time is.
C34_RefillNeverLowers ==
  [][(pc["run"] = "BytesRemaining" /\ pc'["run"] = "getPadding")
       => budget'.tok >= budget.tok]_vars

\* C35: a tick writes padding for an SSRC only if the SSRC is bound with RTX,
\* has a writer registered and has a cached media packet of its own; after
\* UnbindLocalStream no tick pads it, also when the old bound writer is
\* still used.
C35_PaddingOnlyBoundRtx ==
  [][\A s \in SSRCs : padCount'[s] > padCount[s]
       => s \in writers /\ s \in rtxOf /\ lastPacket[s] > 0]_vars

\* a stream was unbound, its old writer has written another media packet,
\* and a tick is waiting whose budget has room for a copy of that packet
C35_Witness ==
  /\ 1 \notin writers
  /\ 1 \in closures
  /\ lastPacket[1] > 0
  /\ running
  /\ tickChan # <<>>
  /\ BytesRemaining(BytesRemainingBudget(budget, Head(tickChan))) > lastPacket[1]

\* C37: no step of the rate controller goes from Decrease directly to
\* Increase, so a Hold step lies between a Decrease step and the next
\* Increase step; and a step on an Over verdict ends in Decrease from every
\* state. rcLast holds the state and the verdict the last step started from.
C37_NoDecreaseToIncrease ==
  rcLast # <<>> =>
    /\ ~(rcLast[1] = stateDecrease /\ rcState = stateIncrease)
    /\ rcLast[2] = usageOver => rcState = stateDecrease

\* the controller stepped out of Decrease on an Under verdict
C37_Witness == rcLast = <<stateDecrease, usageUnder>> /\ rcState = stateHold

\* C38: the list GetQualities returns has exactly one Active layer, also
\* when SetQuality ran on another goroutine while the list was built.
C38_OneActive ==
  snap.pc = "returned" =>
    Cardinality({k \in 1..Len(snap.qualities) : snap.qualities[k].Active}) = 1

\* the call of OnPacketAcked in this step got a non-empty group from the
\* accumulator
Emitted ==
  /\ acked' # acked
  /\ ~agaOut'[1].ret.nil
  /\ Len(agaOut'[1].ret.group) > 0

\* C36 as stated: the stored previous group, the Kalman filter, the overuse
\* detector, the sample counter and the latest usage change only in a call
\* of OnPacketAcked that gets a non-empty group while a previous group is
\* stored.
C36_Original ==
  [][<<drcLast, kfLast, kfCalls, samples, latestUsage>>' #
       <<drcLast, kfLast, kfCalls, samples, latestUsage>>
       => Emitted /\ Len(drcLast) > 0]_vars

\* C36: the stored previous group changes only in a call of OnPacketAcked
\* that gets a non-empty group; the Kalman filter, the overuse detector, the
\* sample counter and the latest usage change only in such a call made while
\* a previous group is stored. An absorbed ack and Update change none of them.
C36_FrameOfOnPacketAcked ==
  [][/\ drcLast' # drcLast => Emitted
     /\ <<kfLast, kfCalls, samples, latestUsage>>' # <<kfLast, kfCalls, samples, latestUsage>>
          => Emitted /\ Len(drcLast) > 0]_vars

\* the first group is stored, no sample has been taken, and Update has run
C36_Witness ==
  /\ Len(drcLast) > 0
  /\ kfCalls = 0
  /\ samples = 0
  /\ rcLast # <<>>

====
